---- MODULE Spec2Model ----
(***************************************************************************)
(* A model of yfinance_mcp: the Data Client (client.py) that wraps the      *)
(* finance-data provider.  One client call is in flight at a time; the     *)
(* provider is the environment and answers every request with a value or   *)
(* with a raised exception.                                                *)
(*                                                                         *)
(* Numbers are fixed-point: a numeric value n stands for n / 10000, so     *)
(* 25600 is 2.56 and 20510000 is 2051.0.                                   *)
(***************************************************************************)
EXTENDS Integers, Sequences, FiniteSets, TLC

VARIABLES
    pc,             \* position of the call in flight, "idle" when none
    op,             \* name of the client operation in flight
    args,           \* the arguments of the call
    ticker_symbol,  \* local of get_stock_price / get_stock_history
    hist,           \* local: the table returned by ticker.history()
    raw_info,       \* local of get_stock_price._fetch: what ticker.info gave
    info,           \* local of get_stock_price._fetch
    target,         \* local of get_fx_rates: the selected catalog entries
    pos,            \* get_fx_rates._fetch: position of the loop in target
    rates,          \* get_fx_rates._fetch: the mapping being filled
    fetched,        \* how the fetch of each pair visited so far ended
    quotes,         \* what the provider's search answered
    fault,          \* the latest exception raised during the call, and where
    result,         \* what the call gave its caller
    log,            \* the provider requests made during the call, in order
    FX_PAIRS,       \* YfinanceClient.FX_PAIRS, the class-level catalog
    caller,         \* who made the call: "client" (direct), "tool"
                    \* (server.py) or "cli" (a command of cli.py)
    payload,        \* what the tool gave its own caller; the command's process
    request,        \* the arguments of the tool; the command line
    suspended       \* the calls in flight on the client that are not running

vars == <<pc, op, args, ticker_symbol, hist, raw_info, info, target, pos,
          rates, fetched, quotes, fault, result, log, FX_PAIRS, caller,
          payload, request, suspended>>

----------------------------------------------------------------------------
(* Bounds of the model *)

MaxRows == 2

----------------------------------------------------------------------------
(* Python values *)

None == [k |-> "none", n |-> 0, s |-> ""]
NaN == [k |-> "nan", n |-> 0, s |-> ""]
PyInt(n) == [k |-> "int", n |-> n, s |-> ""]
PyFloat(n) == [k |-> "float", n |-> n, s |-> ""]
PyStr(s) == [k |-> "str", n |-> 0, s |-> s]

IsNumber(v) == v.k \in {"int", "float"}

\* outcome of evaluating an expression: a value or a raised exception
Ok(v) == [ok |-> TRUE, v |-> v, exc |-> ""]
Raise(e) == [ok |-> FALSE, v |-> None, exc |-> e]

\* the exception classes the provider and the shaping code can raise, and
\* for each its direct base class
ExcTypes == {"YFException", "ValueError", "KeyError", "AttributeError",
             "OSError", "ConnectionError", "TypeError", "Exception"}

BaseClass(e) == IF e = "ConnectionError" THEN "OSError" ELSE "Exception"

IsSubclass(e, c) == e = c \/ BaseClass(e) = c \/ c = "Exception"

\* except (A, B, ...): does the clause catch e
Catches(classes, e) == \E c \in classes : IsSubclass(e, c)

\* float(x)
ToFloat(x) ==
    CASE x.k \in {"int", "float"} -> Ok(PyFloat(x.n))
      [] x.k = "nan" -> Ok(NaN)
      [] x.k = "none" -> Raise("TypeError")
      [] OTHER -> Raise("ValueError")

\* int(x): truncation toward zero
ToInt(x) ==
    CASE x.k = "int" -> Ok(PyInt(x.n))
      [] x.k = "float" ->
           Ok(PyInt(IF x.n >= 0 THEN (x.n \div 10000) * 10000
                                ELSE -(((-x.n) \div 10000) * 10000)))
      [] x.k = "nan" -> Raise("ValueError")
      [] x.k = "none" -> Raise("TypeError")
      [] OTHER -> Raise("ValueError")

\* bool(x) of a float-or-None value
Truthy(x) == x.k # "none" /\ ~(IsNumber(x) /\ x.n = 0)

Pad2(n) == IF n < 10 THEN "0" \o ToString(n) ELSE ToString(n)

\* str(d) of a datetime.date
DateStr(d) == ToString(d.y) \o "-" \o Pad2(d.m) \o "-" \o Pad2(d.d)

----------------------------------------------------------------------------
(* Provider tables (pandas DataFrame) *)

Columns == {"Open", "High", "Low", "Close", "Volume"}

\* an index entry: a timestamp, or (malformed) a plain integer position
Stamp(d, hh) == [kind |-> "ts", y |-> 2025, m |-> 1, d |-> d, hh |-> hh]
Position(i) == [kind |-> "int", y |-> 0, m |-> 0, d |-> i, hh |-> 0]

\* idx.date() of an index entry, then str()
IndexDate(idx) ==
    IF idx.kind = "ts" THEN Ok([y |-> idx.y, m |-> idx.m, d |-> idx.d])
    ELSE Raise("AttributeError")

IndexDateStr(idx) ==
    LET r == IndexDate(idx) IN IF r.ok THEN Ok(DateStr(r.v)) ELSE r

Row(o, h, l, c, v) ==
    [Open |-> PyFloat(o), High |-> PyFloat(h), Low |-> PyFloat(l),
     Close |-> PyFloat(c), Volume |-> v]

GoodRows ==
    { Row(20010000, 21010000, 19010000, 20510000, PyInt(10000000)),
      Row(1505000, 1512500, 1490000, 1500000, PyFloat(5007500)) }

EmptyTable == [cols |-> {}, index |-> <<>>, rows |-> <<>>]

WellFormed(n) ==
    { [cols |-> Columns,
       index |-> [i \in 1..n |-> Stamp(5 + i, 15)],
       rows |-> r] : r \in [1..n -> GoodRows] }

\* hist.empty
Empty(t) == Len(t.index) = 0 \/ t.cols = {}

\* len(hist)
Rows(t) == Len(t.index)

\* a provider table that went wrong in its last row: a column is missing,
\* a cell is null (NaN or None) or not a number, or the index entry is not
\* a date
DropColumn(t, c) ==
    [t EXCEPT !.cols = @ \ {c},
              !.rows = [i \in DOMAIN @ |-> [x \in t.cols \ {c} |-> @[i][x]]]]

BadCell(t, c, v) == [t EXCEPT !.rows[Len(t.rows)][c] = v]

BadIndex(t) == [t EXCEPT !.index[Len(t.index)] = Position(Len(t.index) - 1)]

BadCells == {NaN, None, PyStr("n/a")}

Malformed(t) ==
    {DropColumn(t, c) : c \in Columns}
        \cup {BadCell(t, c, v) : c \in Columns, v \in BadCells}
        \cup {BadIndex(t)}

NonEmptyWellFormed == UNION {WellFormed(n) : n \in 1..MaxRows}

\* the tail(30) and tail(90) windows of _build_stock_price
AvgWindow30 == 30
AvgWindow90 == 90

\* the timestamp of the k-th day of 2025
StampDay(k) ==
    IF k <= 31 THEN [kind |-> "ts", y |-> 2025, m |-> 1, d |-> k, hh |-> 15]
    ELSE IF k <= 59
    THEN [kind |-> "ts", y |-> 2025, m |-> 2, d |-> k - 31, hh |-> 15]
    ELSE IF k <= 90
    THEN [kind |-> "ts", y |-> 2025, m |-> 3, d |-> k - 59, hh |-> 15]
    ELSE [kind |-> "ts", y |-> 2025, m |-> 4, d |-> k - 90, hh |-> 15]

\* tables around the two window lengths; the volume of row i of n follows
\* one of a few schemes (whole volumes, as the provider reports them)
LongLengths ==
    {AvgWindow30 - 1, AvgWindow30, AvgWindow30 + 1,
     AvgWindow90 - 1, AvgWindow90, AvgWindow90 + 1}

VolumeSchemes == {"flat", "zero", "quiet30", "odd", "sparse"}

SchemeVolume(scheme, n, i) ==
    CASE scheme = "flat" -> 10000000
      [] scheme = "zero" -> 0
      [] scheme = "quiet30" -> IF i > n - AvgWindow30 THEN 0 ELSE 15000000
      [] scheme = "odd" -> IF i = n THEN 10010000
                           ELSE IF i > n - AvgWindow30 THEN 10000000
                           ELSE 20000000
      [] OTHER -> IF i = n THEN 10000 ELSE 0

LongTable(n, scheme) ==
    [cols |-> Columns,
     index |-> [i \in 1..n |-> StampDay(i)],
     rows |-> [i \in 1..n |->
                  Row(1505000, 1512500 + (i % 3) * 100,
                      1490000 - (i % 3) * 100, 1500000,
                      PyInt(SchemeVolume(scheme, n, i)))]]

LongTables == {LongTable(n, sc) : n \in LongLengths, sc \in VolumeSchemes}

\* every table ticker.history() answers a five-day request with
Tables ==
    {EmptyTable} \cup WellFormed(0) \cup NonEmptyWellFormed
        \cup UNION {Malformed(t) : t \in NonEmptyWellFormed}

\* the tables a pair's request is answered with: get_fx_rates reads only
\* hist.empty and the last Close, so the defects kept are those of Close and
\* one column it never reads
FxTables ==
    {EmptyTable} \cup WellFormed(0) \cup NonEmptyWellFormed
        \cup UNION {{DropColumn(t, "Close"), DropColumn(t, "Volume")}
                        \cup {BadCell(t, "Close", v) : v \in BadCells} :
                    t \in NonEmptyWellFormed}

\* every table it answers a one-year or a dated request with
YearTables == Tables \cup LongTables

\* hist[c] / row[c]: a missing column is a KeyError
Cell(t, i, c) == IF c \in t.cols THEN Ok(t.rows[i][c]) ELSE Raise("KeyError")

\* float(row[c]) and int(row[c])
FloatCell(t, i, c) ==
    LET x == Cell(t, i, c) IN IF x.ok THEN ToFloat(x.v) ELSE x

IntCell(t, i, c) ==
    LET x == Cell(t, i, c) IN IF x.ok THEN ToInt(x.v) ELSE x

SetMax(S) == CHOOSE x \in S : \A y \in S : x >= y

SetMin(S) == CHOOSE x \in S : \A y \in S : x <= y

\* the numbers of column c in rows lo..hi; pandas reductions skip NaN
Numbers(t, c, lo, hi) ==
    {t.rows[i][c].n : i \in {j \in lo..hi : IsNumber(t.rows[j][c])}}

\* a maximum that looks at the latest row only
ColMaxLatest(t, c) == FloatCell(t, Rows(t), c)

\* float(hist[c].max()) and float(hist[c].min()), over every row
ColMax(t, c) ==
    IF c \notin t.cols THEN Raise("KeyError")
    ELSE LET S == Numbers(t, c, 1, Rows(t))
         IN IF S = {} THEN Ok(NaN) ELSE Ok(PyFloat(SetMax(S)))

ColMin(t, c) ==
    IF c \notin t.cols THEN Raise("KeyError")
    ELSE LET S == Numbers(t, c, 1, Rows(t))
         IN IF S = {} THEN Ok(NaN) ELSE Ok(PyFloat(SetMin(S)))

RECURSIVE SumCells(_, _, _, _)
SumCells(t, c, lo, hi) ==
    IF lo > hi THEN 0
    ELSE (IF IsNumber(t.rows[hi][c]) THEN t.rows[hi][c].n ELSE 0)
             + SumCells(t, c, lo, hi - 1)

\* a mean taken over the whole column
WholeMean(t, c, k) ==
    IF c \notin t.cols THEN Raise("KeyError")
    ELSE LET cnt == Cardinality({j \in 1..Rows(t) : IsNumber(t.rows[j][c])})
         IN IF \E j \in 1..Rows(t) : t.rows[j][c].k = "str"
                THEN Raise("TypeError")
            ELSE IF cnt = 0 THEN Ok(NaN)
            ELSE Ok(PyFloat(SumCells(t, c, 1, Rows(t)) \div cnt))

\* float(hist[c].tail(k).mean())
TailMean(t, c, k) ==
    IF c \notin t.cols THEN Raise("KeyError")
    ELSE LET lo == Rows(t) - k + 1
             cnt == Cardinality({j \in lo..Rows(t) : IsNumber(t.rows[j][c])})
         IN IF \E j \in lo..Rows(t) : t.rows[j][c].k = "str"
                THEN Raise("TypeError")
            ELSE IF cnt = 0 THEN Ok(NaN)
            ELSE Ok(PyFloat(SumCells(t, c, lo, Rows(t)) \div cnt))

----------------------------------------------------------------------------
(* Fundamentals: ticker.info and _extract_fundamentals *)

\* (attr, key) pairs copied through when present and not None
CopiedFields ==
    { [attr |-> "trailing_pe", key |-> "trailingPE"],
      [attr |-> "forward_pe", key |-> "forwardPE"],
      [attr |-> "price_to_book", key |-> "priceToBook"],
      [attr |-> "market_cap", key |-> "marketCap"],
      [attr |-> "sector", key |-> "sector"],
      [attr |-> "trailing_eps", key |-> "trailingEps"] }

FundamentalAttrs == {p.attr : p \in CopiedFields} \cup {"dividend_yield"}

\* info.get(key)
Get(d, key) == IF key \in DOMAIN d THEN d[key] ELSE None

\* a yield rule that lets zero through
DividendYieldNonNegative(dy_raw) ==
    IF IsNumber(dy_raw) /\ dy_raw.n >= 0
    THEN IF dy_raw.n >= 10000 THEN PyFloat(dy_raw.n \div 100) ELSE dy_raw
    ELSE None

\* a yield rule that takes every positive value for a percentage
DividendYieldScaled(dy_raw) ==
    IF IsNumber(dy_raw) /\ dy_raw.n > 0
    THEN PyFloat(dy_raw.n \div 100)
    ELSE None

\* the dividend yield rule: numeric and > 0; >= 1.0 is a percentage
DividendYield(dy_raw) ==
    IF IsNumber(dy_raw) /\ dy_raw.n > 0
    THEN IF dy_raw.n >= 10000 THEN PyFloat(dy_raw.n \div 100) ELSE dy_raw
    ELSE None

\* an extraction that copies a value only when it is truthy
extract_fundamentals_truthy(d) ==
    [a \in FundamentalAttrs |->
        IF a = "dividend_yield" THEN DividendYield(Get(d, "dividendYield"))
        ELSE LET val == Get(d, (CHOOSE p \in CopiedFields : p.attr = a).key)
             IN IF Truthy(val) THEN val ELSE None]

\* _extract_fundamentals(info), with the keys it omits read as None (the
\* default of the StockPrice fields they are unpacked into)
extract_fundamentals(d) ==
    [a \in FundamentalAttrs |->
        IF a = "dividend_yield" THEN DividendYield(Get(d, "dividendYield"))
        ELSE Get(d, (CHOOSE p \in CopiedFields : p.attr = a).key)]

EmptyDict == <<>>

\* values the provider may report under "dividendYield": 2.56, 0.0256, 0.5,
\* 150.0, 1.0, 0.9999, 0.0, -2.56, null, "2.56", 3, 0 and NaN
DividendRaws ==
    {PyFloat(25600), PyFloat(256), PyFloat(5000), PyFloat(1500000),
     PyFloat(10000), PyFloat(9999), PyFloat(0), PyFloat(-25600), None,
     PyStr("2.56"), PyInt(30000), PyInt(0), NaN}

DividendDicts == {("dividendYield" :> r) : r \in DividendRaws}

\* a mapping with all six copied keys; trailingEps is 0.0
FullInfo ==
    ("trailingPE" :> PyFloat(125000) @@ "forwardPE" :> PyFloat(101000)
        @@ "priceToBook" :> PyFloat(11000) @@ "marketCap" :> PyInt(500000000)
        @@ "sector" :> PyStr("Consumer Cyclical")
        @@ "trailingEps" :> PyFloat(0))

\* mappings with one key alone, one key null, or one key left out
KeyDicts ==
    {FullInfo, FullInfo @@ ("dividendYield" :> PyFloat(25600))}
        \cup {(k :> FullInfo[k]) : k \in DOMAIN FullInfo}
        \cup {[FullInfo EXCEPT ![k] = None] : k \in DOMAIN FullInfo}
        \cup {[x \in DOMAIN FullInfo \ {k} |-> FullInfo[x]] :
                  k \in DOMAIN FullInfo}

\* what ticker.info answers with: mappings, and values that are no mapping
InfoDicts ==
    DividendDicts \cup KeyDicts \cup
    { EmptyDict,
      ("trailingPE" :> PyFloat(125000) @@ "marketCap" :> PyInt(500000000)
          @@ "sector" :> PyStr("Consumer Cyclical")),
      ("dividendYield" :> PyFloat(25600) @@ "trailingPE" :> None
          @@ "trailingEps" :> PyFloat(1234500)) }

InfoValues ==
    {[kind |-> "dict", d |-> d] : d \in InfoDicts}
        \cup {[kind |-> "other", d |-> EmptyDict]}

----------------------------------------------------------------------------
(* _build_stock_price *)

\* an average that tests "is not None" where the code tests truthiness
AvgFieldKeepZero(avg) == IF avg.k # "none" THEN ToInt(avg) ELSE Ok(None)

\* int(avg) if avg else None
AvgField(avg) == IF Truthy(avg) THEN ToInt(avg) ELSE Ok(None)

\* the first failing step of an evaluation decides the exception raised
FirstFailure(steps) ==
    steps[CHOOSE i \in DOMAIN steps :
              ~steps[i].ok /\ \A j \in 1..(i - 1) : steps[j].ok]

build_stock_price(code, sym, t, d) ==
    LET n == Rows(t)
        avg_vol_30d == IF n >= AvgWindow30
                       THEN TailMean(t, "Volume", AvgWindow30) ELSE Ok(None)
        avg_vol_90d == IF n >= AvgWindow90
                       THEN TailMean(t, "Volume", AvgWindow90) ELSE Ok(None)
        fundamentals == extract_fundamentals(d)
        date == IndexDateStr(t.index[n])
        close == FloatCell(t, n, "Close")
        open == FloatCell(t, n, "Open")
        high == FloatCell(t, n, "High")
        low == FloatCell(t, n, "Low")
        volume == IntCell(t, n, "Volume")
        week52_high == ColMax(t, "High")
        week52_low == ColMin(t, "Low")
        avg30 == IF avg_vol_30d.ok THEN AvgField(avg_vol_30d.v) ELSE avg_vol_30d
        avg90 == IF avg_vol_90d.ok THEN AvgField(avg_vol_90d.v) ELSE avg_vol_90d
        steps == <<avg_vol_30d, avg_vol_90d, date, close, open, high, low,
                   volume, week52_high, week52_low, avg30, avg90>>
    IN IF \E i \in DOMAIN steps : ~steps[i].ok
       THEN Raise(FirstFailure(steps).exc)
       ELSE Ok([source |-> "yfinance", code |-> code, ticker |-> sym,
                date |-> date.v, close |-> close.v, open |-> open.v,
                high |-> high.v, low |-> low.v, volume |-> volume.v,
                week52_high |-> week52_high.v, week52_low |-> week52_low.v,
                avg_volume_30d |-> avg30.v, avg_volume_90d |-> avg90.v]
               @@ fundamentals)

----------------------------------------------------------------------------
(* The client: state shared by the four operations *)

Catalog ==
    << [name |-> "USDJPY", sym |-> "USDJPY=X"],
       [name |-> "EURJPY", sym |-> "EURJPY=X"],
       [name |-> "GBPJPY", sym |-> "GBPJPY=X"],
       [name |-> "CNYJPY", sym |-> "CNYJPY=X"] >>

\* results of a call, as its caller sees them
Pending == [kind |-> "pending", exc |-> "", v |-> None]
Absent == [kind |-> "absent", exc |-> "", v |-> None]
Raised(e) == [kind |-> "raised", exc |-> e, v |-> None]
Returned(v) == [kind |-> "value", exc |-> "", v |-> v]

NoTable == EmptyTable
NoArgs == <<>>

\* the requests made to the provider
TickerCall(sym) == [call |-> "Ticker", sym |-> sym, kw |-> <<>>]
HistoryCall(sym, kw) == [call |-> "history", sym |-> sym, kw |-> kw]
InfoCall(sym) == [call |-> "info", sym |-> sym, kw |-> <<>>]

\* the exceptions a provider request can raise
ProviderRaises == ExcTypes

\* where an exception came from: a provider request ("Ticker", "history",
\* "info", "Search") or the client's own shaping of a table ("shape")
NoFault == [site |-> "none", exc |-> ""]
Fault(site, e) == [site |-> site, exc |-> e]

NoInfo == [kind |-> "unset", d |-> EmptyDict]

Init ==
    /\ pc = "idle"
    /\ op = "none"
    /\ args = NoArgs
    /\ ticker_symbol = ""
    /\ hist = NoTable
    /\ raw_info = NoInfo
    /\ info = EmptyDict
    /\ target = <<>>
    /\ pos = 0
    /\ rates = EmptyDict
    /\ fetched = EmptyDict
    /\ quotes = <<>>
    /\ fault = NoFault
    /\ result = Pending
    /\ log = <<>>
    /\ FX_PAIRS = Catalog
    /\ caller = "none"
    /\ payload = Pending
    /\ request = NoArgs
    /\ suspended = <<>>

\* the state only get_fx_rates and search_ticker touch
fxvars == <<target, pos, rates, fetched, quotes>>
pricevars == <<raw_info, info>>

\* the state only the tools of server.py touch
toolvars == <<caller, payload, request>>

\* the call has ended: its caller has the result (or the exception)
Finish(r) ==
    /\ pc' = "done"
    /\ result' = r

\* an exception raised inside _fetch, in the worker thread of
\* asyncio.to_thread: the call's except clause runs only once the event loop
\* resumes the coroutine, so the caller has no result yet
Raises(site, e) ==
    /\ fault' = Fault(site, e)
    /\ pc' = "raised"
    /\ UNCHANGED result

\* an exception raised on the event loop, inside the try: the except clause
\* follows in the same step of the coroutine
Throw(site, e, r) ==
    /\ fault' = Fault(site, e)
    /\ Finish(r)

\* the caller takes the result (of the client when it called the client
\* itself, of the tool or of the command otherwise); the client is ready for
\* the next call
Return ==
    /\ \/ pc = "done" /\ caller = "client"
       \/ pc = "tool_done"
       \/ pc = "exited"
    /\ pc' = "idle"
    /\ op' = "none"
    /\ args' = NoArgs
    /\ ticker_symbol' = ""
    /\ hist' = NoTable
    /\ raw_info' = NoInfo
    /\ info' = EmptyDict
    /\ target' = <<>>
    /\ pos' = 0
    /\ rates' = EmptyDict
    /\ fetched' = EmptyDict
    /\ quotes' = <<>>
    /\ fault' = NoFault
    /\ result' = Pending
    /\ log' = <<>>
    /\ caller' = "none"
    /\ payload' = Pending
    /\ request' = NoArgs
    /\ UNCHANGED FX_PAIRS
    /\ UNCHANGED suspended

----------------------------------------------------------------------------
(* get_stock_price *)

Codes == {"7203", "7203.T", "0001", " ab "}

\* optional datetime.date arguments
NoDate == [given |-> FALSE, y |-> 0, m |-> 0, d |-> 0]
ADate(y, m, d) == [given |-> TRUE, y |-> y, m |-> m, d |-> d]
StartDates == {NoDate, ADate(2024, 12, 2)}
EndDates == {NoDate, ADate(2025, 1, 31)}

\* a resolution that leaves an already suffixed code alone
TickerSymbolOnce(code) ==
    IF Len(code) >= 2 /\ SubSeq(code, Len(code) - 1, Len(code)) = ".T"
    THEN code ELSE code \o ".T"

\* f"{code}.T"
TickerSymbol(code) == code \o ".T"

\* except (...) of get_stock_price, and of the info lookup inside _fetch
PriceCaught == {"YFException", "ValueError", "KeyError", "OSError"}
InfoCaught == {"YFException", "ValueError", "KeyError", "AttributeError",
               "OSError"}

\* an exception leaving the try body of an operation
PriceExcept(e) == IF Catches(PriceCaught, e) THEN Absent ELSE Raised(e)

\* str(d) if d else None
DateArg(d) == IF d.given THEN PyStr(DateStr(d)) ELSE None

\* a request that sends the dates only when both bounds are given
PriceHistoryKwBoth(start_date, end_date) ==
    IF start_date.given /\ end_date.given
    THEN ("start" :> DateArg(start_date) @@ "end" :> DateArg(end_date))
    ELSE ("period" :> PyStr("1y"))

\* the keyword arguments of the history request of get_stock_price
PriceHistoryKw(start_date, end_date) ==
    IF start_date.given \/ end_date.given
    THEN ("start" :> DateArg(start_date) @@ "end" :> DateArg(end_date))
    ELSE ("period" :> PyStr("1y"))

\* entering get_stock_price(code, start_date=..., end_date=...)
StockPriceCall(code, start_date, end_date) ==
    /\ args' = [code |-> code, start_date |-> start_date,
                end_date |-> end_date]
    /\ ticker_symbol' = TickerSymbol(code)
    /\ op' = "get_stock_price"
    /\ pc' = "price_ticker"
    /\ UNCHANGED <<hist, pricevars, fxvars, fault, result, log, FX_PAIRS>>

get_stock_price ==
    /\ pc = "idle"
    /\ \E code \in Codes, start_date \in StartDates, end_date \in EndDates :
          StockPriceCall(code, start_date, end_date)
    /\ caller' = "client"
    /\ UNCHANGED <<payload, request>>
    /\ UNCHANGED suspended

\* ticker = yf.Ticker(ticker_symbol)
PriceTicker ==
    /\ pc = "price_ticker"
    /\ UNCHANGED toolvars
    /\ log' = Append(log, TickerCall(ticker_symbol))
    /\ \/ /\ pc' = "price_history"
          /\ UNCHANGED <<fault, result>>
       \/ \E e \in ProviderRaises : Raises("Ticker", e)
    /\ UNCHANGED <<op, args, ticker_symbol, hist, pricevars, fxvars, FX_PAIRS>>
    /\ UNCHANGED suspended

\* a fetch that tests the table for emptiness before the info lookup
PriceHistoryEmptyFirst ==
    /\ pc = "price_history"
    /\ UNCHANGED toolvars
    /\ log' = Append(log, HistoryCall(ticker_symbol,
                   PriceHistoryKw(args.start_date, args.end_date)))
    /\ \/ /\ hist' \in YearTables
          /\ pc' = IF Rows(hist') = 0 THEN "price_build" ELSE "price_info"
          /\ UNCHANGED <<fault, result>>
       \/ /\ \E e \in ProviderRaises : Raises("history", e)
          /\ UNCHANGED hist
    /\ UNCHANGED <<op, args, ticker_symbol, pricevars, fxvars, FX_PAIRS>>
    /\ UNCHANGED suspended

\* hist = ticker.history(...)
PriceHistory ==
    /\ pc = "price_history"
    /\ UNCHANGED toolvars
    /\ log' = Append(log, HistoryCall(ticker_symbol,
                   PriceHistoryKw(args.start_date, args.end_date)))
    /\ \/ /\ hist' \in YearTables
          /\ pc' = "price_info"
          /\ UNCHANGED <<fault, result>>
       \/ /\ \E e \in ProviderRaises : Raises("history", e)
          /\ UNCHANGED hist
    /\ UNCHANGED <<op, args, ticker_symbol, pricevars, fxvars, FX_PAIRS>>
    /\ UNCHANGED suspended

\* raw_info = ticker.info, inside its own try
PriceInfo ==
    /\ pc = "price_info"
    /\ UNCHANGED toolvars
    /\ log' = Append(log, InfoCall(ticker_symbol))
    /\ \/ /\ raw_info' \in InfoValues
          /\ info' = IF raw_info'.kind = "dict" THEN raw_info'.d ELSE EmptyDict
          /\ pc' = "price_build"
          /\ UNCHANGED <<fault, result>>
       \/ /\ \E e \in ProviderRaises :
                IF Catches(InfoCaught, e)
                THEN /\ fault' = Fault("info", e)
                     /\ info' = EmptyDict
                     /\ pc' = "price_build"
                     /\ UNCHANGED result
                ELSE /\ Raises("info", e)
                     /\ UNCHANGED info
          /\ UNCHANGED raw_info
    /\ UNCHANGED <<op, args, ticker_symbol, hist, fxvars, FX_PAIRS>>
    /\ UNCHANGED suspended

\* back on the event loop: the empty check, then _build_stock_price
PriceBuild ==
    /\ pc = "price_build"
    /\ UNCHANGED toolvars
    /\ IF Empty(hist)
       THEN /\ Finish(Absent)
            /\ UNCHANGED fault
       ELSE LET r == build_stock_price(args.code, ticker_symbol, hist, info)
            IN IF r.ok
               THEN /\ Finish(Returned(r.v))
                    /\ UNCHANGED fault
               ELSE Throw("shape", r.exc, PriceExcept(r.exc))
    /\ UNCHANGED <<op, args, ticker_symbol, hist, pricevars, fxvars, log,
                   FX_PAIRS>>
    /\ UNCHANGED suspended

\* the await of _fetch raises: except (YFException, ValueError, KeyError,
\* OSError) gives None, anything else leaves the operation
PriceRaised ==
    /\ pc = "raised"
    /\ op = "get_stock_price"
    /\ Finish(PriceExcept(fault.exc))
    /\ UNCHANGED <<op, args, ticker_symbol, hist, pricevars, fxvars, fault,
                   log, FX_PAIRS>>
    /\ UNCHANGED toolvars
    /\ UNCHANGED suspended

----------------------------------------------------------------------------
(* get_stock_history *)

StartStrings == {"2025-01-01", "yesterday"}
EndStrings == {None, PyStr("2025-01-31")}
Intervals == {"1d", "1wk", "1mo", "7q"}

HistoryCaught == {"YFException", "ValueError", "KeyError", "OSError"}

HistoryExcept(e) == IF Catches(HistoryCaught, e) THEN Absent ELSE Raised(e)

\* a request that replaces an interval it does not know by "1d"
HistoryKwValidated(start_date, end_date, interval) ==
    ("start" :> PyStr(start_date) @@ "end" :> end_date
        @@ "interval" :> PyStr(IF interval \in {"1d", "1wk", "1mo"}
                                THEN interval ELSE "1d"))

\* the keyword arguments of the history request of get_stock_history
HistoryKw(start_date, end_date, interval) ==
    ("start" :> PyStr(start_date) @@ "end" :> end_date
        @@ "interval" :> PyStr(interval))

\* conversions that walk the table from its last row to its first
RowStepsBackwards(t, i) ==
    LET j == Rows(t) - i + 1
    IN << IndexDateStr(t.index[j]), FloatCell(t, j, "Open"),
          FloatCell(t, j, "High"), FloatCell(t, j, "Low"),
          FloatCell(t, j, "Close"), IntCell(t, j, "Volume") >>

\* the six conversions made for row i, in the order the dict literal
\* evaluates them
RowSteps(t, i) ==
    << IndexDateStr(t.index[i]), FloatCell(t, i, "Open"),
       FloatCell(t, i, "High"), FloatCell(t, i, "Low"),
       FloatCell(t, i, "Close"), IntCell(t, i, "Volume") >>

ShapeRow(t, i) ==
    LET st == RowSteps(t, i)
    IN [date |-> st[1].v, open |-> st[2].v, high |-> st[3].v,
        low |-> st[4].v, close |-> st[5].v, volume |-> st[6].v]

\* the rows comprehension, then PriceHistory(...)
BuildPriceHistory(sym, t) ==
    LET n == Rows(t)
        rowsteps == [k \in 1..(6 * n) |->
                        RowSteps(t, ((k - 1) \div 6) + 1)[((k - 1) % 6) + 1]]
        start == IndexDateStr(t.index[1])
        end == IndexDateStr(t.index[n])
        steps == rowsteps \o <<start, end>>
    IN IF \E i \in DOMAIN steps : ~steps[i].ok
       THEN Raise(FirstFailure(steps).exc)
       ELSE Ok([source |-> "yfinance", ticker |-> sym,
                start |-> start.v, end |-> end.v,
                rows |-> [i \in 1..n |-> ShapeRow(t, i)]])

\* entering get_stock_history(code, start_date=..., end_date=..., interval=...)
StockHistoryCall(code, start_date, end_date, interval) ==
    /\ args' = [code |-> code, start_date |-> start_date,
                end_date |-> end_date, interval |-> interval]
    /\ ticker_symbol' = TickerSymbol(code)
    /\ op' = "get_stock_history"
    /\ pc' = "history_ticker"
    /\ UNCHANGED <<hist, pricevars, fxvars, fault, result, log, FX_PAIRS>>

get_stock_history ==
    /\ pc = "idle"
    /\ \E code \in Codes, start_date \in StartStrings,
          end_date \in EndStrings, interval \in Intervals :
          StockHistoryCall(code, start_date, end_date, interval)
    /\ caller' = "client"
    /\ UNCHANGED <<payload, request>>
    /\ UNCHANGED suspended

\* ticker = yf.Ticker(ticker_symbol)
HistoryTicker ==
    /\ pc = "history_ticker"
    /\ UNCHANGED toolvars
    /\ log' = Append(log, TickerCall(ticker_symbol))
    /\ \/ /\ pc' = "history_fetch"
          /\ UNCHANGED <<fault, result>>
       \/ \E e \in ProviderRaises : Raises("Ticker", e)
    /\ UNCHANGED <<op, args, ticker_symbol, hist, pricevars, fxvars, FX_PAIRS>>
    /\ UNCHANGED suspended

\* return ticker.history(start=..., end=..., interval=...)
HistoryFetch ==
    /\ pc = "history_fetch"
    /\ UNCHANGED toolvars
    /\ log' = Append(log, HistoryCall(ticker_symbol,
                   HistoryKw(args.start_date, args.end_date, args.interval)))
    /\ \/ /\ hist' \in YearTables
          /\ pc' = "history_shape"
          /\ UNCHANGED <<fault, result>>
       \/ /\ \E e \in ProviderRaises : Raises("history", e)
          /\ UNCHANGED hist
    /\ UNCHANGED <<op, args, ticker_symbol, pricevars, fxvars, FX_PAIRS>>
    /\ UNCHANGED suspended

\* back on the event loop: the empty check, then the rows and the record
HistoryShape ==
    /\ pc = "history_shape"
    /\ UNCHANGED toolvars
    /\ IF Empty(hist)
       THEN /\ Finish(Absent)
            /\ UNCHANGED fault
       ELSE LET r == BuildPriceHistory(ticker_symbol, hist)
            IN IF r.ok
               THEN /\ Finish(Returned(r.v))
                    /\ UNCHANGED fault
               ELSE Throw("shape", r.exc, HistoryExcept(r.exc))
    /\ UNCHANGED <<op, args, ticker_symbol, hist, pricevars, fxvars, log,
                   FX_PAIRS>>
    /\ UNCHANGED suspended

\* the await of _fetch raises: the except clause of get_stock_history
HistoryRaised ==
    /\ pc = "raised"
    /\ op = "get_stock_history"
    /\ Finish(HistoryExcept(fault.exc))
    /\ UNCHANGED <<op, args, ticker_symbol, hist, pricevars, fxvars, fault,
                   log, FX_PAIRS>>
    /\ UNCHANGED toolvars
    /\ UNCHANGED suspended

----------------------------------------------------------------------------
(* get_fx_rates *)

MaxPairs == 2

\* names a caller may ask for: catalog names and names the catalog lacks
PairNames == {"USDJPY", "EURJPY", "CNYJPY", "AUDJPY", "usdjpy"}

\* the optional list[str] argument
NoPairs == [given |-> FALSE, names |-> <<>>]
PairList(names) == [given |-> TRUE, names |-> names]
PairArgs ==
    {NoPairs} \cup
    {PairList(names) : names \in UNION {[1..n -> PairNames] : n \in 0..MaxPairs}}

Range(f) == {f[x] : x \in DOMAIN f}

RECURSIVE Filter(_, _, _)
Filter(seq, names, all) ==
    IF seq = <<>> THEN <<>>
    ELSE (IF all \/ Head(seq).name \in names THEN <<Head(seq)>> ELSE <<>>)
             \o Filter(Tail(seq), names, all)

\* a selection that forgets the filter
TargetAll(catalog, pairs) == catalog

\* a selection that tests "not pairs" where the code tests "pairs is None"
TargetFalsy(catalog, pairs) ==
    Filter(catalog, Range(pairs.names), ~pairs.given \/ pairs.names = <<>>)

\* a selection that follows the order of the request, not of the catalog
TargetRequestOrder(catalog, pairs) ==
    IF ~pairs.given THEN catalog
    ELSE LET known(n) == \E k \in DOMAIN catalog : catalog[k].name = n
             names == SelectSeq(pairs.names, known)
         IN [i \in DOMAIN names |->
                catalog[CHOOSE k \in DOMAIN catalog :
                            catalog[k].name = names[i]]]

\* {k: v for k, v in self.FX_PAIRS.items() if pairs is None or k in pairs}
Target(catalog, pairs) == Filter(catalog, Range(pairs.names), ~pairs.given)

\* except (...) around one pair, and around the whole of get_fx_rates
PairCaught == {"YFException", "ValueError", "KeyError", "OSError"}
FxCaught == {"YFException", "ValueError", "KeyError", "OSError"}

FxExcept(e) == IF Catches(FxCaught, e) THEN Absent ELSE Raised(e)

FxHistoryKw == ("period" :> PyStr("5d"))

\* how the fetch of one pair ended
PairOk(cell) == [status |-> "ok", close |-> cell]
PairEmpty == [status |-> "empty", close |-> None]
PairFailed == [status |-> "failed", close |-> None]

\* float(hist["Close"].iloc[-1])
LatestClose(t) == FloatCell(t, Rows(t), "Close")

\* a result that skips the "if not rates" check
FxResultAlways(r) == Returned([source |-> "yfinance_fx", rates |-> r])

\* if not rates: return None; return FxRates(source="yfinance_fx", rates=rates)
FxResult(r) ==
    IF DOMAIN r = {} THEN Absent
    ELSE Returned([source |-> "yfinance_fx", rates |-> r])

\* entering get_fx_rates(pairs)
FxRatesCall(pairs) ==
    /\ args' = [pairs |-> pairs]
    /\ target' = Target(FX_PAIRS, pairs)
    /\ op' = "get_fx_rates"
    /\ pc' = "fx_loop"
    /\ pos' = 1
    /\ UNCHANGED <<ticker_symbol, hist, pricevars, rates, fetched, quotes,
                   fault, result, log, FX_PAIRS>>

get_fx_rates ==
    /\ pc = "idle"
    /\ \E pairs \in PairArgs : FxRatesCall(pairs)
    /\ caller' = "client"
    /\ UNCHANGED <<payload, request>>
    /\ UNCHANGED suspended

\* an exception inside the try of the loop body, for the pair at pos
PairRaises(site, e) ==
    /\ fetched' = fetched @@ (target[pos].name :> PairFailed)
    /\ hist' = NoTable
    /\ IF Catches(PairCaught, e)
       THEN /\ fault' = Fault(site, e)
            /\ pos' = pos + 1
            /\ pc' = "fx_loop"
            /\ UNCHANGED result
       ELSE /\ Raises(site, e)
            /\ UNCHANGED pos

\* t = yf.Ticker(sym), for the next pair of target
FxTicker ==
    /\ pc = "fx_loop"
    /\ UNCHANGED toolvars
    /\ pos <= Len(target)
    /\ log' = Append(log, TickerCall(target[pos].sym))
    /\ \/ /\ pc' = "fx_history"
          /\ UNCHANGED <<pos, hist, fetched, fault, result>>
       \/ \E e \in ProviderRaises : PairRaises("Ticker", e)
    /\ UNCHANGED <<op, args, ticker_symbol, pricevars, target, rates, quotes,
                   FX_PAIRS>>
    /\ UNCHANGED suspended

\* hist = t.history(period="5d")
FxHistory ==
    /\ pc = "fx_history"
    /\ UNCHANGED toolvars
    /\ log' = Append(log, HistoryCall(target[pos].sym, FxHistoryKw))
    /\ \/ /\ hist' \in FxTables
          /\ pc' = "fx_take"
          /\ UNCHANGED <<pos, fetched, fault, result>>
       \/ \E e \in ProviderRaises : PairRaises("history", e)
    /\ UNCHANGED <<op, args, ticker_symbol, pricevars, target, rates, quotes,
                   FX_PAIRS>>
    /\ UNCHANGED suspended

\* if not hist.empty: result[name] = float(hist["Close"].iloc[-1])
\* (hist is dead once the pair is done)
FxTake ==
    /\ pc = "fx_take"
    /\ UNCHANGED toolvars
    /\ LET name == target[pos].name
           close == LatestClose(hist)
       IN IF Empty(hist)
          THEN /\ fetched' = fetched @@ (name :> PairEmpty)
               /\ hist' = NoTable
               /\ pos' = pos + 1
               /\ pc' = "fx_loop"
               /\ UNCHANGED <<rates, fault, result>>
          ELSE IF close.ok
          THEN /\ rates' = rates @@ (name :> close.v)
               /\ fetched' = fetched @@
                      (name :> PairOk(hist.rows[Rows(hist)]["Close"]))
               /\ hist' = NoTable
               /\ pos' = pos + 1
               /\ pc' = "fx_loop"
               /\ UNCHANGED <<fault, result>>
          ELSE /\ PairRaises("shape", close.exc)
               /\ UNCHANGED rates
    /\ UNCHANGED <<op, args, ticker_symbol, pricevars, target, quotes, log,
                   FX_PAIRS>>
    /\ UNCHANGED suspended

\* the loop is over: _fetch returns, and the event loop builds the result
FxReturn ==
    /\ pc = "fx_loop"
    /\ UNCHANGED toolvars
    /\ pos > Len(target)
    /\ Finish(FxResult(rates))
    /\ UNCHANGED <<op, args, ticker_symbol, hist, pricevars, fxvars, fault,
                   log, FX_PAIRS>>
    /\ UNCHANGED suspended

\* the await of _fetch raises: the except clause of get_fx_rates
FxRaised ==
    /\ pc = "raised"
    /\ op = "get_fx_rates"
    /\ Finish(FxExcept(fault.exc))
    /\ UNCHANGED <<op, args, ticker_symbol, hist, pricevars, fxvars, fault,
                   log, FX_PAIRS>>
    /\ UNCHANGED toolvars
    /\ UNCHANGED suspended

----------------------------------------------------------------------------
(* search_ticker *)

MaxQuotes == 2

Queries == {"Toyota", "xxx"}

\* the matches of the provider: mappings that may lack any of the keys
QuoteItems ==
    { ("symbol" :> "7203.T" @@ "shortname" :> "TOYOTA MOTOR"
          @@ "longname" :> "Toyota Motor Corporation" @@ "exchange" :> "JPX"
          @@ "quoteType" :> "EQUITY"),
      ("symbol" :> "TM" @@ "exchange" :> "NYQ"),
      EmptyDict }

QuoteLists == UNION {[1..n -> QuoteItems] : n \in 0..MaxQuotes}

SearchCaught == {"YFException", "ValueError", "KeyError", "OSError"}

SearchExcept(e) == IF Catches(SearchCaught, e) THEN Returned(<<>>) ELSE Raised(e)

SearchCall(query) ==
    [call |-> "Search", sym |-> query, kw |-> ("max_results" :> PyInt(100000))]

\* a lookup that forgets the default
GetOrNull(item, key, default) == IF key \in DOMAIN item THEN item[key] ELSE "None"

\* item.get(key, "")
GetOr(item, key, default) == IF key \in DOMAIN item THEN item[key] ELSE default

ProjectQuote(item) ==
    [symbol |-> GetOr(item, "symbol", ""),
     short_name |-> GetOr(item, "shortname", ""),
     long_name |-> GetOr(item, "longname", ""),
     exchange |-> GetOr(item, "exchange", ""),
     type |-> GetOr(item, "quoteType", "")]

\* entering search_ticker(query)
SearchTickerCall(query) ==
    /\ args' = [query |-> query]
    /\ op' = "search_ticker"
    /\ pc' = "search_fetch"
    /\ UNCHANGED <<ticker_symbol, hist, pricevars, fxvars, fault, result, log,
                   FX_PAIRS>>

search_ticker ==
    /\ pc = "idle"
    /\ \E query \in Queries : SearchTickerCall(query)
    /\ caller' = "client"
    /\ UNCHANGED <<payload, request>>
    /\ UNCHANGED suspended

\* search = yf.Search(query, max_results=10), then the projection loop
SearchFetch ==
    /\ pc = "search_fetch"
    /\ UNCHANGED toolvars
    /\ log' = Append(log, SearchCall(args.query))
    /\ \/ /\ quotes' \in QuoteLists
          /\ pc' = "search_return"
          /\ UNCHANGED <<fault, result>>
       \/ /\ \E e \in ProviderRaises : Raises("Search", e)
          /\ UNCHANGED quotes
    /\ UNCHANGED <<op, args, ticker_symbol, hist, pricevars, target, pos,
                   rates, fetched, FX_PAIRS>>
    /\ UNCHANGED suspended

\* return await asyncio.to_thread(_fetch): the list _fetch projected
SearchReturn ==
    /\ pc = "search_return"
    /\ Finish(Returned([k \in DOMAIN quotes |-> ProjectQuote(quotes[k])]))
    /\ UNCHANGED <<op, args, ticker_symbol, hist, pricevars, fxvars, fault,
                   log, FX_PAIRS>>
    /\ UNCHANGED toolvars
    /\ UNCHANGED suspended

\* the await of _fetch raises: the except clause of search_ticker
SearchRaised ==
    /\ pc = "raised"
    /\ op = "search_ticker"
    /\ Finish(SearchExcept(fault.exc))
    /\ UNCHANGED <<op, args, ticker_symbol, hist, pricevars, fxvars, fault,
                   log, FX_PAIRS>>
    /\ UNCHANGED toolvars
    /\ UNCHANGED suspended

----------------------------------------------------------------------------
(* server.py: the four MCP tools, each a call of the client and a reply *)

\* the text sub occurs in the text s
Contains(s, sub) ==
    \E i \in 1..(Len(s) - Len(sub) + 1) : SubSeq(s, i, i + Len(sub) - 1) = sub

\* a price reply whose message leaves the code out
PriceReplyNoCode(code, r) ==
    IF r.kind = "absent" THEN [error |-> "No data found"] ELSE r.v

\* get_stock_price(code): {"error": ...} for None, else result.__dict__
PriceReply(code, r) ==
    IF r.kind = "absent"
    THEN [error |-> "No data found for code=" \o code \o " (ticker "
                        \o code \o ".T)"]
    ELSE r.v

\* get_stock_history(...): {"error": ...} for None, else the six-key dict
HistoryReply(code, r) ==
    IF r.kind = "absent"
    THEN [error |-> "No history found for code=" \o code]
    ELSE [source |-> r.v.source, ticker |-> r.v.ticker, start |-> r.v.start,
          end |-> r.v.end, count |-> Len(r.v.rows), data |-> r.v.rows]

\* get_fx_rates(pairs): {"error": ...} for None, else source and rates
FxReply(r) ==
    IF r.kind = "absent"
    THEN [error |-> "Failed to fetch FX rates"]
    ELSE [source |-> r.v.source, rates |-> r.v.rates]

\* search_ticker(query): "not results" holds for None and for []
SearchReply(query, r) ==
    IF r.kind = "absent" \/ r.v = <<>>
    THEN << [message |-> "No tickers found for query: " \o query] >>
    ELSE r.v

\* the return of a tool: an exception of the client passes through it
Reply(v) ==
    /\ pc = "done"
    /\ caller = "tool"
    /\ pc' = "tool_done"
    /\ payload' = IF result.kind = "raised" THEN Raised(result.exc)
                  ELSE Returned(v)
    /\ UNCHANGED <<op, args, ticker_symbol, hist, pricevars, fxvars, fault,
                   result, log, FX_PAIRS, caller, request>>

\* result = await _client.get_stock_price(code)
tool_get_stock_price ==
    /\ pc = "idle"
    /\ \E code \in Codes :
          /\ request' = [code |-> code]
          /\ StockPriceCall(code, NoDate, NoDate)
    /\ caller' = "tool"
    /\ UNCHANGED payload
    /\ UNCHANGED suspended

ToolPriceReturn ==
    /\ op = "get_stock_price"
    /\ Reply(PriceReply(request.code, result))
    /\ UNCHANGED suspended

\* result = await _client.get_stock_history(code, start_date=..., ...)
tool_get_stock_history ==
    /\ pc = "idle"
    /\ \E code \in Codes, start_date \in StartStrings,
          end_date \in EndStrings, interval \in Intervals :
          /\ request' = [code |-> code, start_date |-> start_date,
                         end_date |-> end_date, interval |-> interval]
          /\ StockHistoryCall(code, start_date, end_date, interval)
    /\ caller' = "tool"
    /\ UNCHANGED payload
    /\ UNCHANGED suspended

ToolHistoryReturn ==
    /\ op = "get_stock_history"
    /\ Reply(HistoryReply(request.code, result))
    /\ UNCHANGED suspended

\* result = await _client.get_fx_rates(pairs)
tool_get_fx_rates ==
    /\ pc = "idle"
    /\ \E pairs \in PairArgs :
          /\ request' = [pairs |-> pairs]
          /\ FxRatesCall(pairs)
    /\ caller' = "tool"
    /\ UNCHANGED payload
    /\ UNCHANGED suspended

ToolFxReturn ==
    /\ op = "get_fx_rates"
    /\ Reply(FxReply(result))
    /\ UNCHANGED suspended

\* results = await _client.search_ticker(query)
tool_search_ticker ==
    /\ pc = "idle"
    /\ \E query \in Queries :
          /\ request' = [query |-> query]
          /\ SearchTickerCall(query)
    /\ caller' = "tool"
    /\ UNCHANGED payload
    /\ UNCHANGED suspended

ToolSearchReturn ==
    /\ op = "search_ticker"
    /\ Reply(SearchReply(request.query, result))
    /\ UNCHANGED suspended

-----------------------------------------------------------------------------
(* cli.py: the commands, each a process that makes its own client, calls
   it and exits.  Of a command, request holds the command line and payload
   the process: what it has written to stdout and stderr, the client calls
   it has made and, once it has ended, its exit status. *)

\* the values of --pairs: None when the option is not given
CliPairs == {None, PyStr(""), PyStr("USDJPY"), PyStr("EURJPY,USDJPY"),
             PyStr("USDJPY, EURJPY"), PyStr("XXX")}

\* click.echo(text) and click.echo(json.dumps(v, ...))
Text(t) == [kind |-> "text", text |-> t, v |-> None]
Json(v) == [kind |-> "json", text |-> "", v |-> v]
\* the check mark and "<what>=<v>" on stdout; the cross and "failed" on stderr
Pass(what, v) == [kind |-> "pass", text |-> what, v |-> v]
Fail == [kind |-> "fail", text |-> "failed", v |-> None]

ClientCall(name, a) == [op |-> name, args |-> a]

Started(call) ==
    [kind |-> "running", exc |-> "",
     v |-> [status |-> 0, stdout |-> <<>>, stderr |-> <<>>,
            calls |-> <<call>>]]

\* str.split(sep) for a one-character separator
RECURSIVE Split(_, _)
Split(str, sep) ==
    IF \E i \in 1..Len(str) : SubSeq(str, i, i) = sep
    THEN LET i == CHOOSE i \in 1..Len(str) :
                      /\ SubSeq(str, i, i) = sep
                      /\ \A j \in 1..(i - 1) : SubSeq(str, j, j) # sep
         IN <<SubSeq(str, 1, i - 1)>>
                \o Split(SubSeq(str, i + 1, Len(str)), sep)
    ELSE <<str>>

\* pair_list = pairs.split(",") if pairs else None
PairListOf(pairs) ==
    IF pairs.k = "str" /\ pairs.s # "" THEN PairList(Split(pairs.s, ","))
    ELSE NoPairs

\* what the end of a command adds to the process
Outcome(status, out, err) == [status |-> status, stdout |-> out, stderr |-> err]

\* click.echo(message, err=True); raise SystemExit(1)
Failure(message) == Outcome(1, <<>>, <<Text(message)>>)

\* click.echo(json.dumps(record, ensure_ascii=False, indent=2))
Success(record) == Outcome(0, <<Json(record)>>, <<>>)

\* a price command that reports "no data" and still exits normally
PriceOutcomeExitsZero(code, r) ==
    IF r.kind = "absent"
    THEN Outcome(0, <<>>, <<Text("No data found for " \o code)>>)
    ELSE Success(r.v)

\* price: if result is None ... else print result.__dict__
PriceOutcome(code, r) ==
    IF r.kind = "absent" THEN Failure("No data found for " \o code)
    ELSE Success(r.v)

\* history: if result is None ... else print the four keys
HistoryOutcome(code, r) ==
    IF r.kind = "absent" THEN Failure("No history found for " \o code)
    ELSE Success([ticker |-> r.v.ticker, start |-> r.v.start,
                  end |-> r.v.end, data |-> r.v.rows])

\* fx: if result is None ... else print result.__dict__
FxOutcome(r) ==
    IF r.kind = "absent" THEN Failure("Failed to fetch FX rates")
    ELSE Success(r.v)

\* the process after more output
Emit(proc, out, err) ==
    [proc EXCEPT !.stdout = @ \o out, !.stderr = @ \o err]

\* the end of a command: by its outcome, or by the exception of the client,
\* which no command catches
Exit(outcome) ==
    /\ pc' = "exited"
    /\ payload' =
          IF result.kind = "raised"
          THEN [kind |-> "raised", exc |-> result.exc,
                v |-> [payload.v EXCEPT !.status = 1]]
          ELSE [kind |-> "exit", exc |-> "",
                v |-> [Emit(payload.v, outcome.stdout, outcome.stderr)
                          EXCEPT !.status = outcome.status]]
    /\ UNCHANGED <<op, args, ticker_symbol, hist, pricevars, fxvars, fault,
                   result, log, FX_PAIRS, caller, request>>

\* result = asyncio.run(client.get_stock_price(code))
cli_price ==
    /\ pc = "idle"
    /\ \E code \in {"7203"} :
          /\ request' = [command |-> "price", code |-> code]
          /\ StockPriceCall(code, NoDate, NoDate)
          /\ payload' = Started(ClientCall("get_stock_price", args'))
    /\ caller' = "cli"
    /\ UNCHANGED suspended

CliPriceExit ==
    /\ pc = "done"
    /\ caller = "cli"
    /\ request.command = "price"
    /\ Exit(PriceOutcome(request.code, result))
    /\ UNCHANGED suspended

\* result = asyncio.run(client.get_stock_history(code, start_date=start, ...))
cli_history ==
    /\ pc = "idle"
    /\ \E code \in {"7203"}, start \in {"2025-01-01"},
          end \in {None, PyStr("2025-01-31")}, interval \in {"1d"} :
          /\ request' = [command |-> "history", code |-> code,
                         start |-> start, end |-> end, interval |-> interval]
          /\ StockHistoryCall(code, start, end, interval)
          /\ payload' = Started(ClientCall("get_stock_history", args'))
    /\ caller' = "cli"
    /\ UNCHANGED suspended

CliHistoryExit ==
    /\ pc = "done"
    /\ caller = "cli"
    /\ request.command = "history"
    /\ Exit(HistoryOutcome(request.code, result))
    /\ UNCHANGED suspended

\* result = asyncio.run(client.get_fx_rates(pair_list))
cli_fx ==
    /\ pc = "idle"
    /\ \E pairs \in CliPairs :
          /\ request' = [command |-> "fx", pairs |-> pairs]
          /\ FxRatesCall(PairListOf(pairs))
          /\ payload' = Started(ClientCall("get_fx_rates", args'))
    /\ caller' = "cli"
    /\ UNCHANGED suspended

CliFxExit ==
    /\ pc = "done"
    /\ caller = "cli"
    /\ request.command = "fx"
    /\ Exit(FxOutcome(result))
    /\ UNCHANGED suspended

\* results = asyncio.run(client.search_ticker(query))
cli_search ==
    /\ pc = "idle"
    /\ \E query \in {"Toyota"} :
          /\ request' = [command |-> "search", query |-> query]
          /\ SearchTickerCall(query)
          /\ payload' = Started(ClientCall("search_ticker", args'))
    /\ caller' = "cli"
    /\ UNCHANGED suspended

CliSearchExit ==
    /\ pc = "done"
    /\ caller = "cli"
    /\ request.command = "search"
    /\ Exit(Success(result.v))
    /\ UNCHANGED suspended

\* test: stock = await client.get_stock_price("7203")
cli_test ==
    /\ pc = "idle"
    /\ request' = [command |-> "test"]
    /\ StockPriceCall("7203", NoDate, NoDate)
    /\ payload' =
          [Started(ClientCall("get_stock_price", args')) EXCEPT
              !.v.stdout = <<Text("Testing stock price (Toyota 7203)...")>>]
    /\ caller' = "cli"
    /\ UNCHANGED suspended

\* the report of the price check
PriceReport(r) ==
    IF r.kind = "value"
    THEN Outcome(0, <<Pass("close", <<r.v.close, PyStr(r.v.date)>>)>>, <<>>)
    ELSE Outcome(0, <<>>, <<Fail>>)

\* the report of the FX check: fx_result.rates.get('USDJPY')
FxReport(r) ==
    IF r.kind = "value"
    THEN Outcome(0, <<Pass("USDJPY", Get(r.v.rates, "USDJPY"))>>, <<>>)
    ELSE Outcome(0, <<>>, <<Fail>>)

\* test: the price lookup has returned; its report is written and
\* fx_result = await client.get_fx_rates(["USDJPY"]) is entered
CliTestPrice ==
    /\ pc = "done"
    /\ caller = "cli"
    /\ request.command = "test"
    /\ op = "get_stock_price"
    /\ result.kind # "raised"
    /\ LET pairs == PairList(<<"USDJPY">>)
           report == PriceReport(result)
       IN /\ args' = [pairs |-> pairs]
          /\ target' = Target(FX_PAIRS, pairs)
          /\ payload' =
                [payload EXCEPT
                    !.v = [Emit(@, report.stdout
                                      \o <<Text("Testing FX rates...")>>,
                                report.stderr)
                              EXCEPT !.calls =
                                  @ \o <<ClientCall("get_fx_rates", args')>>]]
    /\ op' = "get_fx_rates"
    /\ pc' = "fx_loop"
    /\ pos' = 1
    /\ ticker_symbol' = ""
    /\ hist' = NoTable
    /\ raw_info' = NoInfo
    /\ info' = EmptyDict
    /\ fault' = NoFault
    /\ result' = Pending
    /\ log' = <<>>
    /\ UNCHANGED <<rates, fetched, quotes, FX_PAIRS, caller, request>>
    /\ UNCHANGED suspended

\* test: the price lookup has raised; nothing catches it
CliTestPriceRaised ==
    /\ pc = "done"
    /\ caller = "cli"
    /\ request.command = "test"
    /\ op = "get_stock_price"
    /\ result.kind = "raised"
    /\ Exit(PriceReport(result))
    /\ UNCHANGED suspended

\* test: the FX lookup has ended
CliTestExit ==
    /\ pc = "done"
    /\ caller = "cli"
    /\ request.command = "test"
    /\ op = "get_fx_rates"
    /\ Exit(FxReport(result))
    /\ UNCHANGED suspended

----------------------------------------------------------------------------
Next ==
    \/ get_stock_price
    \/ PriceTicker
    \/ PriceHistory
    \/ PriceInfo
    \/ PriceBuild
    \/ PriceRaised
    \/ get_stock_history
    \/ HistoryTicker
    \/ HistoryFetch
    \/ HistoryShape
    \/ HistoryRaised
    \/ get_fx_rates
    \/ FxTicker
    \/ FxHistory
    \/ FxTake
    \/ FxReturn
    \/ FxRaised
    \/ search_ticker
    \/ SearchFetch
    \/ SearchReturn
    \/ SearchRaised
    \/ tool_get_stock_price
    \/ ToolPriceReturn
    \/ tool_get_stock_history
    \/ ToolHistoryReturn
    \/ tool_get_fx_rates
    \/ ToolFxReturn
    \/ tool_search_ticker
    \/ ToolSearchReturn
    \/ cli_price
    \/ CliPriceExit
    \/ cli_history
    \/ CliHistoryExit
    \/ cli_fx
    \/ CliFxExit
    \/ cli_search
    \/ CliSearchExit
    \/ cli_test
    \/ CliTestPrice
    \/ CliTestPriceRaised
    \/ CliTestExit
    \/ Return

Spec == Init /\ [][Next]_vars

-----------------------------------------------------------------------------
(* Concurrent calls on one client: server.py keeps one YfinanceClient for
   every tool call, and each operation awaits asyncio.to_thread, so calls
   overlap.  A call's arguments, locals and result live in its own coroutine
   frame; FX_PAIRS, a class attribute, is the one thing every call reads. *)

\* the calls in flight at once
MaxInFlight == 2

\* the frame of the running call
Frame ==
    [pc |-> pc, op |-> op, args |-> args, ticker_symbol |-> ticker_symbol,
     hist |-> hist, raw_info |-> raw_info, info |-> info, target |-> target,
     pos |-> pos, rates |-> rates, fetched |-> fetched, quotes |-> quotes,
     fault |-> fault, result |-> result, log |-> log, caller |-> caller,
     payload |-> payload, request |-> request]

\* no call has started: every caller's frame is the one of Init
InitConcurrent ==
    /\ pc = "idle"
    /\ op = "none"
    /\ args = NoArgs
    /\ ticker_symbol = ""
    /\ hist = NoTable
    /\ raw_info = NoInfo
    /\ info = EmptyDict
    /\ target = <<>>
    /\ pos = 0
    /\ rates = EmptyDict
    /\ fetched = EmptyDict
    /\ quotes = <<>>
    /\ fault = NoFault
    /\ result = Pending
    /\ log = <<>>
    /\ FX_PAIRS = Catalog
    /\ caller = "none"
    /\ payload = Pending
    /\ request = NoArgs
    /\ suspended = [i \in 1..(MaxInFlight - 1) |-> Frame]

\* a frame becomes the running one, but for the mapping being filled
ResumeLocals(f) ==
    /\ pc' = f.pc
    /\ op' = f.op
    /\ args' = f.args
    /\ ticker_symbol' = f.ticker_symbol
    /\ hist' = f.hist
    /\ raw_info' = f.raw_info
    /\ info' = f.info
    /\ target' = f.target
    /\ pos' = f.pos
    /\ fetched' = f.fetched
    /\ quotes' = f.quotes
    /\ fault' = f.fault
    /\ result' = f.result
    /\ log' = f.log
    /\ caller' = f.caller
    /\ payload' = f.payload
    /\ request' = f.request

\* a client that kept the mapping being filled on itself, for every call
ResumeSharingRates(f) ==
    /\ ResumeLocals(f)
    /\ UNCHANGED rates

\* a frame becomes the running one: "result" of _fetch is a local too
Resume(f) ==
    /\ ResumeLocals(f)
    /\ rates' = f.rates

\* the running call is suspended where it is and another one goes on
Switch ==
    \E i \in DOMAIN suspended :
        /\ suspended' = [suspended EXCEPT ![i] = Frame]
        /\ Resume(suspended[i])
        /\ UNCHANGED FX_PAIRS

\* the arguments and the provider responses of overlapping calls: one
\* caught and one uncaught exception, the empty table and a one-row table,
\* one info mapping, one match
Narrowed ==
    /\ fault'.exc \in {"", "OSError", "AttributeError"}
    /\ hist' \in {EmptyTable}
                 \cup {t \in WellFormed(1) : t.rows[1]["Volume"].k = "int"}
    /\ raw_info' \in {NoInfo, [kind |-> "dict", d |-> FullInfo]}
    /\ quotes' \in {<<>>}
                   \cup {q \in QuoteLists :
                             Len(q) = 1 /\ "longname" \in DOMAIN q[1]}
    /\ op' = "get_stock_price" =>
          args' = [code |-> "7203", start_date |-> NoDate, end_date |-> NoDate]
    /\ op' = "get_stock_history" =>
          args' = [code |-> "7203", start_date |-> "2025-01-01",
                   end_date |-> None, interval |-> "1d"]
    /\ op' = "get_fx_rates" =>
          args'.pairs = PairList(<<"EURJPY", "USDJPY">>)
    /\ op' = "search_ticker" => args'.query = "Toyota"

NextConcurrent ==
    \/ get_stock_price /\ Narrowed
    \/ PriceTicker /\ Narrowed
    \/ PriceHistory /\ Narrowed
    \/ PriceInfo /\ Narrowed
    \/ PriceBuild /\ Narrowed
    \/ PriceRaised
    \/ get_stock_history /\ Narrowed
    \/ HistoryTicker /\ Narrowed
    \/ HistoryFetch /\ Narrowed
    \/ HistoryShape /\ Narrowed
    \/ HistoryRaised
    \/ get_fx_rates /\ Narrowed
    \/ FxTicker /\ Narrowed
    \/ FxHistory /\ Narrowed
    \/ FxTake /\ Narrowed
    \/ FxReturn /\ Narrowed
    \/ FxRaised
    \/ search_ticker /\ Narrowed
    \/ SearchFetch /\ Narrowed
    \/ SearchReturn
    \/ SearchRaised
    \/ Return
    \/ Switch

SpecConcurrent == InitConcurrent /\ [][NextConcurrent]_vars

----------------------------------------------------------------------------
(* Properties of the client *)

Done == pc = "done"

StockOps == {"get_stock_price", "get_stock_history"}

\* the (single) history request of a stock operation was made and answered
\* with the table now in hist
HistoryAnswered ==
    /\ \E k \in DOMAIN log : log[k].call = "history"
    /\ fault.site # "history"

CatalogNames == {"USDJPY", "EURJPY", "GBPJPY", "CNYJPY"}

\* the catalog names a pairs argument asks for
Selected(pairs) ==
    IF pairs.given
    THEN {n \in CatalogNames : \E k \in DOMAIN pairs.names : pairs.names[k] = n}
    ELSE CatalogNames

\* C1: whatever exception the provider raises at ticker construction or at
\* the history request of get_stock_price / get_stock_history, the
\* operation returns absent and nothing reaches the caller.
C1_FetchExceptionGivesAbsent ==
    (Done /\ op \in StockOps /\ fault.site \in {"Ticker", "history"})
        => result = Absent

\* C2: in get_stock_price, with a non-empty well-formed history, an info
\* lookup that raises (any type) or answers with a non-mapping still gives a
\* snapshot: price fields from the history, every fundamentals field absent.
C2_InfoFailureKeepsSnapshot ==
    (/\ Done
     /\ op = "get_stock_price"
     /\ hist \in NonEmptyWellFormed
     /\ (fault.site = "info" \/ raw_info.kind = "other"))
        => /\ result.kind = "value"
           /\ \A a \in FundamentalAttrs : result.v[a] = None
           /\ result.v.close = PyFloat(hist.rows[Rows(hist)]["Close"].n)
           /\ result.v.open = PyFloat(hist.rows[Rows(hist)]["Open"].n)
           /\ result.v.high = PyFloat(hist.rows[Rows(hist)]["High"].n)
           /\ result.v.low = PyFloat(hist.rows[Rows(hist)]["Low"].n)

\* C3: in get_fx_rates a pair whose fetch fails is only omitted: every pair
\* whose own fetch succeeded is in the result with its own latest close, so
\* the call never ends absent or raising while a pair succeeded.
C3_PairFailureOnlyOmitsThatPair ==
    (Done /\ op = "get_fx_rates")
        => \A p \in DOMAIN fetched :
              fetched[p].status = "ok"
                  => /\ result.kind = "value"
                     /\ p \in DOMAIN result.v.rates
                     /\ result.v.rates[p] = ToFloat(fetched[p].close).v

\* C4: search_ticker returns an empty sequence for every exception the
\* provider's search raises, whatever its type.
C4_SearchExceptionGivesEmpty ==
    (Done /\ op = "search_ticker" /\ fault.site = "Search")
        => (result.kind = "value" /\ Len(result.v) = 0)

\* C5: an empty history table makes get_stock_price and get_stock_history
\* return absent, whatever the other inputs and whatever the info lookup
\* does.
C5_EmptyHistoryGivesAbsent ==
    (Done /\ op \in StockOps /\ HistoryAnswered /\ Empty(hist))
        => result = Absent

\* C6: a failure of the shaping of a malformed table (missing column, null
\* or non-numeric cell, index entry that is no date) in get_stock_price or
\* get_stock_history is converted to absent, never propagated.
C6_MalformedTableGivesAbsent ==
    (Done /\ op \in StockOps /\ fault.site = "shape")
        => result = Absent

\* C7: get_stock_price and get_stock_history ask the provider for exactly
\* code + ".T" and report exactly that as the ticker (and the code
\* unchanged): a suffixed code is suffixed again, leading zeros, whitespace
\* and case are kept.
C7_SymbolIsCodePlusSuffix ==
    op \in StockOps =>
        /\ ticker_symbol = args.code \o ".T"
        /\ \A k \in DOMAIN log : log[k].sym = args.code \o ".T"
        /\ result.kind = "value" =>
              /\ result.v.ticker = args.code \o ".T"
              /\ op = "get_stock_price" => result.v.code = args.code
        /\ args.code = "7203" => ticker_symbol = "7203.T"
        /\ args.code = "7203.T" => ticker_symbol = "7203.T.T"
        /\ args.code = "0001" => ticker_symbol = "0001.T"
        /\ args.code = " ab " => ticker_symbol = " ab .T"

C7_Witness ==
    /\ Done
    /\ op = "get_stock_price"
    /\ args.code = "7203.T"
    /\ result.kind = "value"
    /\ result.v.ticker = "7203.T.T"
    /\ result.v.code = "7203.T"
    /\ Len(log) = 3

\* C8: the pairs get_fx_rates selects are exactly the catalog names in the
\* list (all four when no list is given); unknown names are dropped without
\* error, only selected pairs are asked of the provider, and the keys of a
\* returned mapping are among the selected pairs.
C8_PairSelection ==
    op = "get_fx_rates" =>
        /\ {target[k].name : k \in DOMAIN target} = Selected(args.pairs)
        /\ \A k \in DOMAIN log :
              \E n \in Selected(args.pairs) : log[k].sym = n \o "=X"
        /\ DOMAIN rates \subseteq Selected(args.pairs)
        /\ result.kind = "value" =>
              DOMAIN result.v.rates \subseteq Selected(args.pairs)
        /\ fault = NoFault => result.kind # "raised"

C8_Witness ==
    /\ Done
    /\ op = "get_fx_rates"
    /\ args.pairs = PairList(<<"USDJPY", "AUDJPY">>)
    /\ result.kind = "value"
    /\ DOMAIN result.v.rates = {"USDJPY"}

\* C9: get_fx_rates called with an empty list, or with only names the
\* catalog lacks, makes no provider request at all and returns absent.
C9_NothingSelectedNoProviderCall ==
    (op = "get_fx_rates" /\ args.pairs.given /\ Selected(args.pairs) = {})
        => /\ Len(log) = 0
           /\ Done => result = Absent

C9_Witness ==
    /\ Done
    /\ op = "get_fx_rates"
    /\ args.pairs = PairList(<<"AUDJPY", "usdjpy">>)
    /\ result = Absent
    /\ Len(log) = 0

\* the selected pair at place k of target was fetched and gave no rate: its
\* fetch failed or its table was empty
GaveNoRate(k) ==
    /\ target[k].name \in DOMAIN fetched
    /\ fetched[target[k].name].status \in {"failed", "empty"}

\* C10: get_fx_rates gives absent exactly when the rate mapping is empty,
\* that is when every selected pair failed or came back empty or none was
\* selected; a returned snapshot holds at least one rate, each rate is the
\* latest close of that pair's own successful fetch, and a failed pair has
\* no entry.
C10_AbsentExactlyWhenNoRate ==
    (Done /\ op = "get_fx_rates") =>
        /\ result.kind = "absent" <=> \A k \in DOMAIN target : GaveNoRate(k)
        /\ result.kind = "absent" => DOMAIN rates = {}
        /\ result.kind = "value" =>
              /\ DOMAIN result.v.rates # {}
              /\ \A p \in DOMAIN result.v.rates :
                    /\ fetched[p].status = "ok"
                    /\ result.v.rates[p] = ToFloat(fetched[p].close).v
              /\ \A p \in DOMAIN fetched :
                    fetched[p].status # "ok" => p \notin DOMAIN result.v.rates

\* the part of C10 that holds: a get_fx_rates call that returns, a record or
\* absent, gives absent exactly when the rate mapping is empty, which is
\* when no selected pair gave a rate; a returned snapshot holds at least one
\* rate, and each rate is the latest close of that pair's own successful
\* fetch.
C10_AbsentIffNoRate ==
    (Done /\ op = "get_fx_rates" /\ result.kind # "raised") =>
        /\ result = Absent <=> DOMAIN rates = {}
        /\ result = Absent <=>
              \A k \in DOMAIN target : fetched[target[k].name].status # "ok"
        /\ result = Absent <=> \A k \in DOMAIN target : GaveNoRate(k)
        /\ result.kind = "value" =>
              /\ DOMAIN result.v.rates # {}
              /\ \A p \in DOMAIN result.v.rates :
                    /\ fetched[p].status = "ok"
                    /\ result.v.rates[p] = ToFloat(fetched[p].close).v
              /\ \A p \in DOMAIN fetched :
                    fetched[p].status # "ok" => p \notin DOMAIN result.v.rates

C10_Witness ==
    /\ Done
    /\ op = "get_fx_rates"
    /\ result.kind = "value"
    /\ \E p \in DOMAIN fetched : fetched[p].status = "failed"
    /\ \E p \in DOMAIN fetched : fetched[p].status = "empty"
    /\ Cardinality(DOMAIN result.v.rates) = 2

\* a get_stock_price call that returned a snapshot built from hist
Snapshot == Done /\ op = "get_stock_price" /\ result.kind = "value"

\* C11: in every snapshot get_stock_price returns, avg_volume_30d is present
\* exactly when the table has at least 30 rows and the volumes of its last
\* 30 rows do not average to zero, and avg_volume_90d exactly when it has at
\* least 90 rows and the volumes of its last 90 rows do not average to zero;
\* either field may be present without the other.
C11_AvgVolumePresence ==
    Snapshot =>
        LET n == Rows(hist)
        IN /\ result.v.avg_volume_30d # None <=>
                  (n >= 30 /\ SumCells(hist, "Volume", n - 29, n) # 0)
           /\ result.v.avg_volume_90d # None <=>
                  (n >= 90 /\ SumCells(hist, "Volume", n - 89, n) # 0)

C11_Witness ==
    /\ Snapshot
    /\ Rows(hist) >= 90
    /\ result.v.avg_volume_30d = None
    /\ result.v.avg_volume_90d = PyInt(10000000)

\* the raw value the extraction reads under a key (a missing key reads null)
RawInfo(key) == IF key \in DOMAIN info THEN info[key] ELSE None

NumericRaw(raw) == raw.k \in {"int", "float"}

\* C12: the snapshot's dividend_yield is present exactly when the raw
\* dividendYield is a number strictly above 0; it is then raw / 100 when
\* raw >= 1.0 and raw itself when raw < 1.0; zero, negative, null, missing
\* and non-numeric raw values leave it absent.
C12_DividendYieldRule ==
    Snapshot =>
        LET raw == RawInfo("dividendYield")
            y == result.v.dividend_yield
        IN /\ y # None <=> (NumericRaw(raw) /\ raw.n > 0)
           /\ (NumericRaw(raw) /\ raw.n >= 10000) =>
                  (y.k = "float" /\ y.n * 100 = raw.n)
           /\ (NumericRaw(raw) /\ raw.n > 0 /\ raw.n < 10000) => y = raw
           /\ raw = PyFloat(25600) => y = PyFloat(256)
           /\ raw = PyFloat(10000) => y = PyFloat(100)
           /\ raw = PyFloat(9999) => y = PyFloat(9999)
           /\ raw \in {PyFloat(0), PyInt(0), PyFloat(-25600), None, NaN,
                       PyStr("2.56")} => y = None

C12_Witness ==
    /\ Snapshot
    /\ RawInfo("dividendYield") = PyInt(30000)
    /\ result.v.dividend_yield = PyFloat(300)

\* the yield extracted when the same yield is supplied as the fraction raw/100
AsFraction(raw) ==
    extract_fundamentals(
        ("dividendYield" :> PyFloat(raw.n \div 100))).dividend_yield

\* C13 as stated: for every positive yield, the percentage P and the
\* fraction P / 100 give the same dividend_yield.
C13_EveryPositiveYieldConverges ==
    Snapshot =>
        LET raw == RawInfo("dividendYield")
        IN (NumericRaw(raw) /\ raw.n > 0) =>
               result.v.dividend_yield = AsFraction(raw)

\* C13, amended: for every percentage P with 1.0 <= P < 100, supplying P and
\* supplying the fraction P / 100 give the same dividend_yield; below 1.0 the
\* percentage is kept as it is, from 100 up the fraction is divided again.
C13_PercentAndFractionAgree ==
    Snapshot =>
        LET raw == RawInfo("dividendYield")
        IN (NumericRaw(raw) /\ raw.n >= 10000 /\ raw.n < 1000000) =>
               /\ result.v.dividend_yield # None
               /\ result.v.dividend_yield = AsFraction(raw)

C13_Witness ==
    /\ Snapshot
    /\ RawInfo("dividendYield") = PyFloat(25600)
    /\ result.v.dividend_yield = PyFloat(256)
    /\ AsFraction(PyFloat(25600)) = PyFloat(256)

\* C14: each of trailing_pe, forward_pe, price_to_book, market_cap, sector
\* and trailing_eps is present in the snapshot exactly when its own key is
\* in the info mapping with a non-null value, and then holds that value
\* unchanged, whatever the other keys and the dividend yield are.
C14_CopiedFields ==
    Snapshot =>
        /\ result.v.trailing_pe = RawInfo("trailingPE")
        /\ result.v.forward_pe = RawInfo("forwardPE")
        /\ result.v.price_to_book = RawInfo("priceToBook")
        /\ result.v.market_cap = RawInfo("marketCap")
        /\ result.v.sector = RawInfo("sector")
        /\ result.v.trailing_eps = RawInfo("trailingEps")

C14_Witness ==
    /\ Snapshot
    /\ DOMAIN info = {"trailingPE", "forwardPE", "priceToBook", "marketCap",
                      "sector", "trailingEps"}
    /\ info["trailingPE"] = None
    /\ result.v.trailing_pe = None
    /\ result.v.sector = PyStr("Consumer Cyclical")
    /\ result.v.market_cap = PyInt(500000000)
    /\ result.v.trailing_eps = PyFloat(0)
    /\ result.v.dividend_yield = None

\* the history requests made so far in the call in flight
HistoryRequests == {k \in DOMAIN log : log[k].call = "history"}

\* the arguments C15 expects of a history request of get_stock_price
PriceRequestAsStated(kw) ==
    IF args.start_date.given \/ args.end_date.given
    THEN /\ DOMAIN kw = {"start", "end"}
         /\ kw["start"] = IF args.start_date.given
                           THEN PyStr("2024-12-02") ELSE None
         /\ kw["end"] = IF args.end_date.given
                         THEN PyStr("2025-01-31") ELSE None
    ELSE /\ DOMAIN kw = {"period"}
         /\ kw["period"] = PyStr("1y")

\* C15 as stated: every finished get_stock_price call has issued exactly one
\* history request, with the stated arguments.
C15_ExactlyOneHistoryRequest ==
    (Done /\ op = "get_stock_price") =>
        /\ Cardinality(HistoryRequests) = 1
        /\ \A k \in HistoryRequests : PriceRequestAsStated(log[k].kw)

\* C15, amended: a get_stock_price call issues at most one history request,
\* exactly one once its ticker object is constructed and none when the
\* construction raises; the request carries start and end (a missing bound
\* as None) and no period when either bound is given, and period "1y" with
\* no start or end when neither is.
C15_OneHistoryRequestOnceConstructed ==
    op = "get_stock_price" =>
        /\ Cardinality(HistoryRequests) <= 1
        /\ (Done /\ fault.site # "Ticker") => Cardinality(HistoryRequests) = 1
        /\ (Done /\ fault.site = "Ticker") => HistoryRequests = {}
        /\ \A k \in HistoryRequests : PriceRequestAsStated(log[k].kw)

C15_Witness ==
    /\ Snapshot
    /\ args.start_date.given
    /\ ~args.end_date.given
    /\ Cardinality(HistoryRequests) = 1
    /\ \A k \in HistoryRequests :
          log[k].kw = ("start" :> PyStr("2024-12-02") @@ "end" :> None)

\* a price cell as the float the snapshot reports
Reported(cell, field) ==
    /\ cell.k \in {"int", "float", "nan"}
    /\ cell.k = "nan" => field = NaN
    /\ cell.k # "nan" => field = PyFloat(cell.n)

\* the numbers (NaN left out) of a column of hist
ColumnNumbers(c) ==
    {hist.rows[i][c].n :
        i \in {j \in 1..Rows(hist) : hist.rows[j][c].k \in {"int", "float"}}}

\* C16: a snapshot returned by get_stock_price takes date, close, open, high,
\* low and volume from the last row of the table, week52_high is the largest
\* High of all its rows and week52_low the smallest Low of all its rows.
C16_LatestRowAndExtremes ==
    Snapshot =>
        LET n == Rows(hist)
            last == hist.rows[n]
            at == hist.index[n]
            Highs == ColumnNumbers("High")
            Lows == ColumnNumbers("Low")
        IN /\ n >= 1
           /\ result.v.date = DateStr([y |-> at.y, m |-> at.m, d |-> at.d])
           /\ Reported(last["Close"], result.v.close)
           /\ Reported(last["Open"], result.v.open)
           /\ Reported(last["High"], result.v.high)
           /\ Reported(last["Low"], result.v.low)
           /\ result.v.volume.k = "int"
           /\ last["Volume"].k \in {"int", "float"}
           /\ result.v.volume.n = (last["Volume"].n \div 10000) * 10000
           /\ IF Highs = {} THEN result.v.week52_high = NaN
              ELSE /\ result.v.week52_high.k = "float"
                   /\ result.v.week52_high.n \in Highs
                   /\ \A h \in Highs : result.v.week52_high.n >= h
           /\ IF Lows = {} THEN result.v.week52_low = NaN
              ELSE /\ result.v.week52_low.k = "float"
                   /\ result.v.week52_low.n \in Lows
                   /\ \A l \in Lows : result.v.week52_low.n <= l

C16_Witness ==
    /\ Snapshot
    /\ Rows(hist) = 2
    /\ result.v.date = "2025-01-07"
    /\ result.v.close = PyFloat(1500000)
    /\ result.v.volume = PyInt(5000000)
    /\ result.v.high = PyFloat(1512500)
    /\ result.v.week52_high = PyFloat(21010000)
    /\ result.v.week52_low = PyFloat(1490000)

\* a get_stock_history call that returned a record built from hist
HistoryRecord == Done /\ op = "get_stock_history" /\ result.kind = "value"

\* the date string of entry i of the index of hist
DateAt(i) ==
    DateStr([y |-> hist.index[i].y, m |-> hist.index[i].m,
             d |-> hist.index[i].d])

\* C17: the record get_stock_history returns has one row per row of the
\* provider's table, row i made from the provider's row i (none dropped,
\* duplicated or moved), and its start and end are the dates of the first
\* and last rows of the table, not the dates that were asked for; every
\* non-empty table of finite numbers yields such a record.
C17_RowsInProviderOrder ==
    /\ HistoryRecord =>
          LET n == Rows(hist)
          IN /\ n >= 1
             /\ Len(result.v.rows) = n
             /\ \A i \in 1..n :
                   /\ result.v.rows[i].date = DateAt(i)
                   /\ Reported(hist.rows[i]["Open"], result.v.rows[i].open)
                   /\ Reported(hist.rows[i]["High"], result.v.rows[i].high)
                   /\ Reported(hist.rows[i]["Low"], result.v.rows[i].low)
                   /\ Reported(hist.rows[i]["Close"], result.v.rows[i].close)
                   /\ result.v.rows[i].volume.k = "int"
                   /\ result.v.rows[i].volume.n =
                          (hist.rows[i]["Volume"].n \div 10000) * 10000
             /\ result.v.start = DateAt(1)
             /\ result.v.end = DateAt(n)
    /\ (Done /\ op = "get_stock_history" /\ HistoryAnswered
            /\ hist \in NonEmptyWellFormed \cup LongTables) =>
          result.kind = "value"

C17_Witness ==
    /\ HistoryRecord
    /\ args.start_date = "2025-01-01"
    /\ args.end_date = PyStr("2025-01-31")
    /\ Len(result.v.rows) = 2
    /\ result.v.rows[1].date = "2025-01-06"
    /\ result.v.rows[1].close = PyFloat(20510000)
    /\ result.v.rows[2].date = "2025-01-07"
    /\ result.v.rows[2].close = PyFloat(1500000)
    /\ result.v.start = "2025-01-06"
    /\ result.v.end = "2025-01-07"

\* a search_ticker call whose provider request was answered with quotes
SearchAnswered == Done /\ op = "search_ticker" /\ fault.site = "none"

\* the value of a provider key in a match, "" when the match lacks the key
Field(item, key) == IF key \in DOMAIN item THEN item[key] ELSE ""

\* C18: search_ticker returns one record per provider match, in provider
\* order, each with exactly the keys symbol, short_name, long_name, exchange
\* and type, taken from symbol, shortname, longname, exchange and quoteType;
\* a key the match lacks gives "".
C18_SearchProjection ==
    SearchAnswered =>
        /\ result.kind = "value"
        /\ Len(result.v) = Len(quotes)
        /\ \A k \in 1..Len(quotes) :
              /\ DOMAIN result.v[k] =
                     {"symbol", "short_name", "long_name", "exchange", "type"}
              /\ result.v[k].symbol = Field(quotes[k], "symbol")
              /\ result.v[k].short_name = Field(quotes[k], "shortname")
              /\ result.v[k].long_name = Field(quotes[k], "longname")
              /\ result.v[k].exchange = Field(quotes[k], "exchange")
              /\ result.v[k].type = Field(quotes[k], "quoteType")

C18_Witness ==
    /\ SearchAnswered
    /\ Len(quotes) = 2
    /\ DOMAIN quotes[1] = {"symbol", "exchange"}
    /\ DOMAIN quotes[2] = {}
    /\ result.v[1] = [symbol |-> "TM", short_name |-> "", long_name |-> "",
                       exchange |-> "NYQ", type |-> ""]
    /\ result.v[2] = [symbol |-> "", short_name |-> "", long_name |-> "",
                       exchange |-> "", type |-> ""]

----------------------------------------------------------------------------
(* Properties of the tools of server.py *)

\* a tool has replied (or let the client's exception through)
ToolDone == pc = "tool_done"

MapTools == {"get_stock_price", "get_stock_history", "get_fx_rates"}

\* C19: the map a price, history or FX tool returns has an "error" key
\* exactly when the client returned None; it then has no other key and, for
\* price and history, its message contains the code that was passed; a map
\* made from a client result has no "error" key.
C19_ErrorIffAbsent ==
    (ToolDone /\ op \in MapTools) =>
        /\ payload.kind = "value" <=> result.kind # "raised"
        /\ payload.kind = "value" =>
              /\ "error" \in DOMAIN payload.v <=> result.kind = "absent"
              /\ result.kind = "absent" =>
                    /\ DOMAIN payload.v = {"error"}
                    /\ op \in StockOps =>
                          Contains(payload.v.error, args.code)
              /\ (result.kind = "value" /\ op = "get_stock_price") =>
                    payload.v = result.v
              /\ (result.kind = "value" /\ op = "get_stock_history") =>
                    /\ DOMAIN payload.v = {"source", "ticker", "start", "end",
                                           "count", "data"}
                    /\ payload.v.count = Len(result.v.rows)
                    /\ payload.v.data = result.v.rows
              /\ (result.kind = "value" /\ op = "get_fx_rates") =>
                    payload.v = [source |-> "yfinance_fx",
                                 rates |-> result.v.rates]

C19_Witness ==
    /\ ToolDone
    /\ op = "get_stock_price"
    /\ args.code = "7203.T"
    /\ result.kind = "absent"
    /\ payload.kind = "value"
    /\ payload.v =
          [error |-> "No data found for code=7203.T (ticker 7203.T.T)"]

\* the reply of the search tool when there is nothing to show
NoTickersFound ==
    << [message |-> "No tickers found for query: " \o args.query] >>

\* C20: the search tool replies with the one-element "message" list, naming
\* the query, whenever the client has no matches, and with the client's
\* records unchanged otherwise; a failure of the provider's search gives the
\* same reply as a search without matches.
C20_FailureLooksLikeNoMatches ==
    (ToolDone /\ op = "search_ticker") =>
        /\ (fault.site = "none" /\ quotes = <<>>) =>
              /\ payload.kind = "value"
              /\ payload.v = NoTickersFound
              /\ Contains(payload.v[1].message, args.query)
        /\ (fault.site = "none" /\ quotes # <<>>) =>
              /\ payload.kind = "value"
              /\ payload.v = result.v
        /\ fault.site = "Search" =>
              /\ payload.kind = "value"
              /\ payload.v = NoTickersFound

\* C22: get_stock_history passes start_date, end_date and interval to the
\* provider's history request exactly as it received them, whatever they
\* are ("yesterday", "7q"), and rejects none of them itself: the request is
\* made whenever the ticker was constructed, and a table of finite numbers
\* gives a record whatever the interval; the tool of server.py hands its own
\* code, start_date, end_date and interval to the client unchanged.
C22_HistoryArgumentsPassThrough ==
    op = "get_stock_history" =>
        /\ \A k \in HistoryRequests :
              /\ DOMAIN log[k].kw = {"start", "end", "interval"}
              /\ log[k].kw["start"] = PyStr(args.start_date)
              /\ log[k].kw["end"] = args.end_date
              /\ log[k].kw["interval"] = PyStr(args.interval)
        /\ (Done /\ fault.site # "Ticker") => Cardinality(HistoryRequests) = 1
        /\ (Done /\ HistoryAnswered
                /\ hist \in NonEmptyWellFormed \cup LongTables) =>
              result.kind = "value"
        /\ caller = "tool" =>
              /\ args.code = request.code
              /\ args.start_date = request.start_date
              /\ args.end_date = request.end_date
              /\ args.interval = request.interval

C22_Witness ==
    /\ ToolDone
    /\ op = "get_stock_history"
    /\ request.interval = "7q"
    /\ request.start_date = "yesterday"
    /\ request.end_date = None
    /\ \E k \in HistoryRequests :
          log[k].kw = ("start" :> PyStr("yesterday") @@ "end" :> None
                          @@ "interval" :> PyStr("7q"))
    /\ result.kind = "value"
    /\ payload.kind = "value"
    /\ payload.v.count = 2

\* the whole part of the mean of the last k volumes of hist
MeanVolume(k) ==
    LET n == Rows(hist)
    IN PyInt((SumCells(hist, "Volume", n - k + 1, n) \div (k * 10000)) * 10000)

\* C25: an avg_volume_30d that is present is the mean volume of exactly the
\* last 30 rows of the table, cut to its whole part, and an avg_volume_90d
\* that is present is the same of exactly the last 90 rows; rows before the
\* window do not count.
C25_TruncatedTrailingMean ==
    Snapshot =>
        /\ result.v.avg_volume_30d # None =>
              result.v.avg_volume_30d = MeanVolume(30)
        /\ result.v.avg_volume_90d # None =>
              result.v.avg_volume_90d = MeanVolume(90)

C25_Witness ==
    /\ Snapshot
    /\ Rows(hist) = 91
    /\ hist.rows[1]["Volume"] = PyInt(20000000)
    /\ hist.rows[91]["Volume"] = PyInt(10010000)
    /\ result.v.avg_volume_30d = PyInt(10000000)
    /\ result.v.avg_volume_90d = PyInt(16660000)

\* the ticker constructions of the call in flight, in the order made
IsTickerCall(c) == c.call = "Ticker"

Constructions == SelectSeq(log, IsTickerCall)

\* the place of a pair in the catalog
CatalogPlace(name) ==
    CASE name = "USDJPY" -> 1
      [] name = "EURJPY" -> 2
      [] name = "GBPJPY" -> 3
      [] name = "CNYJPY" -> 4

\* C26: in a get_fx_rates call the pairs are fetched one after the other in
\* catalog order, whatever the order of the request: the k-th construction
\* is for the k-th selected pair, every history request follows the
\* construction of its own pair, at most one fetch is unfinished, and a
\* fetch starts only when every earlier pair has ended with a rate, an empty
\* table or a swallowed failure.
C26_PairsFetchedInTurn ==
    op = "get_fx_rates" =>
        /\ \A i, j \in DOMAIN target :
              i < j => CatalogPlace(target[i].name) < CatalogPlace(target[j].name)
        /\ Len(Constructions) <= Len(target)
        /\ \A k \in DOMAIN Constructions :
              /\ Constructions[k].sym = target[k].sym
              /\ \A j \in 1..(k - 1) : target[j].name \in DOMAIN fetched
        /\ \A k \in DOMAIN log :
              log[k].call = "history" =>
                  /\ k > 1
                  /\ log[k - 1].call = "Ticker"
                  /\ log[k - 1].sym = log[k].sym
        /\ Len(Constructions) - Cardinality(DOMAIN fetched) \in {0, 1}
        /\ Len(Constructions) - Cardinality(DOMAIN fetched) = 1 <=>
              pc \in {"fx_history", "fx_take"}
        /\ \A p \in DOMAIN fetched :
              /\ \E k \in DOMAIN Constructions : target[k].name = p
              /\ fetched[p].status \in {"ok", "empty", "failed"}

C26_Witness ==
    /\ Done
    /\ op = "get_fx_rates"
    /\ args.pairs = PairList(<<"EURJPY", "USDJPY">>)
    /\ Len(log) = 4
    /\ log[1] = TickerCall("USDJPY=X")
    /\ log[2].call = "history"
    /\ log[3] = TickerCall("EURJPY=X")
    /\ log[4].call = "history"
    /\ result.kind = "value"
    /\ DOMAIN result.v.rates = {"USDJPY", "EURJPY"}

\* C28: the claim as stated: a finished get_fx_rates call has constructed
\* exactly one ticker per distinct catalog name of its request, each for the
\* symbol of one of those names, and none for any other symbol.
C28_OneConstructionPerSelectedPair ==
    (Done /\ op = "get_fx_rates") =>
        /\ Len(Constructions) = Cardinality(Selected(args.pairs))
        /\ \A n \in Selected(args.pairs) :
              Cardinality({k \in DOMAIN Constructions :
                              Constructions[k].sym = n \o "=X"}) = 1
        /\ \A k \in DOMAIN Constructions :
              \E n \in Selected(args.pairs) : Constructions[k].sym = n \o "=X"

\* the part of C28 that holds: no pair is constructed twice, none outside
\* the selection, and all of the selection when the call returns instead of
\* raising
C28_NeverTwiceNeverOther ==
    op = "get_fx_rates" =>
        /\ \A n \in Selected(args.pairs) :
              Cardinality({k \in DOMAIN Constructions :
                              Constructions[k].sym = n \o "=X"}) <= 1
        /\ \A k \in DOMAIN Constructions :
              \E n \in Selected(args.pairs) : Constructions[k].sym = n \o "=X"
        /\ (Done /\ result.kind # "raised") =>
              Len(Constructions) = Cardinality(Selected(args.pairs))

C28_RepeatedAndUnknownNames ==
    /\ Done
    /\ op = "get_fx_rates"
    /\ args.pairs.given
    /\ Len(args.pairs.names) = 2
    /\ \/ args.pairs.names[1] = args.pairs.names[2]
       \/ args.pairs.names[2] \notin CatalogNames
    /\ Len(Constructions) = 1
    /\ result.kind = "value"

InfoRequests == {k \in DOMAIN log : log[k].call = "info"}

\* C29: in a get_stock_price call the info lookup is made at most once and
\* only after a history request that returned: never when the construction
\* or the history request raised, and always, before the call ends, when the
\* history request returned, an empty table included.
C29_InfoOnceAfterHistory ==
    op = "get_stock_price" =>
        /\ Cardinality(InfoRequests) <= 1
        /\ \A k \in InfoRequests :
              /\ \E j \in HistoryRequests : j < k
              /\ fault.site \notin {"Ticker", "history"}
        /\ fault.site \in {"Ticker", "history"} => InfoRequests = {}
        /\ (Done /\ HistoryAnswered) => Cardinality(InfoRequests) = 1
        /\ pc = "price_build" => Cardinality(InfoRequests) = 1

C29_Witness ==
    /\ Done
    /\ op = "get_stock_price"
    /\ HistoryAnswered
    /\ Rows(hist) = 0
    /\ log[Len(log)].call = "info"
    /\ Cardinality(InfoRequests) = 1
    /\ result.kind = "absent"

\* Python's >= and <= on floats: false as soon as one side is NaN
Geq(a, b) == a.k \in {"int", "float"} /\ b.k \in {"int", "float"} /\ a.n >= b.n

Leq(a, b) == a.k \in {"int", "float"} /\ b.k \in {"int", "float"} /\ a.n <= b.n

\* C30: the claim as stated: every snapshot get_stock_price returns has
\* week52_high >= high and week52_low <= low.
C30_ExtremesBracketLatest ==
    Snapshot =>
        /\ Geq(result.v.week52_high, result.v.high)
        /\ Leq(result.v.week52_low, result.v.low)

\* the part of C30 that holds: the bracket holds in every snapshot whose
\* latest high and low are numbers
C30_BracketWhenNumbers ==
    Snapshot =>
        /\ result.v.high.k = "float" => Geq(result.v.week52_high, result.v.high)
        /\ result.v.low.k = "float" => Leq(result.v.week52_low, result.v.low)

C30_StrictBracket ==
    /\ Snapshot
    /\ result.v.week52_high.k = "float"
    /\ result.v.high.k = "float"
    /\ result.v.week52_high.n > result.v.high.n
    /\ result.v.week52_low.n < result.v.low.n

-----------------------------------------------------------------------------
(* Properties of the commands *)

Exited == pc = "exited"

ResultCommands == {"price", "history", "fx"}

\* the record a command prints for the result of its client call
PrintedRecord ==
    IF request.command = "history"
    THEN [ticker |-> result.v.ticker, start |-> result.v.start,
          end |-> result.v.end, data |-> result.v.rows]
    ELSE result.v

\* C23: a price, history or fx command whose client call returned absent
\* exits with a non-zero status and has printed no record; one whose client
\* call returned a result exits with status 0 and has printed that record,
\* and nothing else, on stdout.
C23_ExitStatusFollowsResult ==
    (Exited /\ request.command \in ResultCommands) =>
        /\ result.kind = "absent" =>
              /\ payload.kind = "exit"
              /\ payload.v.status # 0
              /\ payload.v.stdout = <<>>
              /\ Len(payload.v.stderr) = 1
        /\ result.kind = "value" =>
              /\ payload.kind = "exit"
              /\ payload.v.status = 0
              /\ payload.v.stdout = <<Json(PrintedRecord)>>
              /\ payload.v.stderr = <<>>

C23_Witness ==
    /\ Exited
    /\ request.command = "price"
    /\ result.kind = "absent"
    /\ Rows(hist) = 0
    /\ payload.v.status = 1
    /\ payload.v.stdout = <<>>
    /\ payload.v.stderr = <<Text("No data found for 7203")>>

C23_RecordPrinted ==
    /\ Exited
    /\ request.command = "history"
    /\ result.kind = "value"
    /\ payload.v.status = 0
    /\ Len(payload.v.stdout) = 1
    /\ DOMAIN payload.v.stdout[1].v = {"ticker", "start", "end", "data"}
    /\ Len(payload.v.stdout[1].v.data) = 2

\* the pass and fail reports a command has written
IsReport(e) == e.kind \in {"pass", "fail"}

Reports == Len(SelectSeq(payload.v.stdout, IsReport))
               + Len(SelectSeq(payload.v.stderr, IsReport))

\* C24: the claim as stated: every run of the test command has made one
\* price lookup, then one FX lookup, and has reported a pass or a fail for
\* each, whatever the outcome of the price lookup.
C24_BothChecksAlwaysMade ==
    (Exited /\ request.command = "test") =>
        /\ Len(payload.v.calls) = 2
        /\ payload.v.calls[1].op = "get_stock_price"
        /\ payload.v.calls[2].op = "get_fx_rates"
        /\ Reports = 2

\* the part of C24 that holds: the price lookup is made once and first; the
\* FX lookup is made once, after it, whenever the price lookup returned (a
\* snapshot or absent); each lookup that returned is reported
C24_BothChecksUnlessRaised ==
    (Exited /\ request.command = "test") =>
        /\ payload.v.calls[1] =
              ClientCall("get_stock_price",
                         [code |-> "7203", start_date |-> NoDate,
                          end_date |-> NoDate])
        /\ Len(payload.v.calls) = 1 =>
              (op = "get_stock_price" /\ payload.kind = "raised" /\ Reports = 0)
        /\ Len(payload.v.calls) > 1 =>
              /\ Len(payload.v.calls) = 2
              /\ payload.v.calls[2] =
                    ClientCall("get_fx_rates",
                               [pairs |-> PairList(<<"USDJPY">>)])
              /\ Reports = IF payload.kind = "raised" THEN 1 ELSE 2
              /\ payload.kind = "exit" => payload.v.status = 0

C24_FailThenPass ==
    /\ Exited
    /\ request.command = "test"
    /\ payload.kind = "exit"
    /\ payload.v.stderr = <<Fail>>
    /\ Len(payload.v.stdout) = 3
    /\ payload.v.stdout[3].kind = "pass"
    /\ payload.v.stdout[3].text = "USDJPY"

\* the names of a --pairs value
NamedPairs == Range(Split(request.pairs.s, ","))

\* C27: the claim as stated: an fx command given a --pairs value fetches
\* and prints only pairs named in that value, and the whole catalog is
\* selected only when the option is not supplied.
C27_OnlyNamedPairsFetched ==
    (Exited /\ request.command = "fx") =>
        /\ request.pairs # None =>
              /\ \A k \in DOMAIN Constructions :
                    \E n \in NamedPairs : Constructions[k].sym = n \o "=X"
              /\ result.kind = "value" =>
                    DOMAIN payload.v.stdout[1].v.rates \subseteq NamedPairs
        /\ args.pairs = NoPairs => request.pairs = None

\* the part of C27 that holds: a non-empty --pairs value selects only the
\* pairs it names, and the whole catalog is selected exactly when the option
\* is not supplied or is the empty string
C27_NonEmptyValueSelects ==
    (Exited /\ request.command = "fx") =>
        /\ (request.pairs # None /\ request.pairs.s # "") =>
              /\ args.pairs = PairList(Split(request.pairs.s, ","))
              /\ \A k \in DOMAIN Constructions :
                    \E n \in NamedPairs : Constructions[k].sym = n \o "=X"
              /\ result.kind = "value" =>
                    DOMAIN payload.v.stdout[1].v.rates \subseteq NamedPairs
        /\ args.pairs = NoPairs <=>
              (request.pairs = None \/ request.pairs = PyStr(""))

C27_UnstrippedName ==
    /\ Exited
    /\ request.command = "fx"
    /\ request.pairs = PyStr("USDJPY, EURJPY")
    /\ args.pairs = PairList(<<"USDJPY", " EURJPY">>)
    /\ Len(Constructions) = 1
    /\ result.kind = "value"
    /\ DOMAIN payload.v.stdout[1].v.rates = {"USDJPY"}

-----------------------------------------------------------------------------
(* Properties of concurrent calls *)

\* every call in flight: the running one and the suspended ones
Frames == {Frame} \cup Range(suspended)

\* what a call gives when it runs alone, from its arguments and the
\* provider's responses to it (the tables, the info value, the outcome of
\* each pair, the matches, the exception that ended it)
PriceAlone(f) ==
    IF f.fault.site \in {"Ticker", "history"} THEN PriceExcept(f.fault.exc)
    ELSE IF f.fault.site = "info" /\ ~Catches(InfoCaught, f.fault.exc)
    THEN PriceExcept(f.fault.exc)
    ELSE IF Empty(f.hist) THEN Absent
    ELSE LET d == IF f.raw_info.kind = "dict" THEN f.raw_info.d
                  ELSE EmptyDict
             r == build_stock_price(f.args.code, TickerSymbol(f.args.code),
                                    f.hist, d)
         IN IF r.ok THEN Returned(r.v) ELSE PriceExcept(r.exc)

HistoryAlone(f) ==
    IF f.fault.site \in {"Ticker", "history"} THEN HistoryExcept(f.fault.exc)
    ELSE IF Empty(f.hist) THEN Absent
    ELSE LET r == BuildPriceHistory(TickerSymbol(f.args.code), f.hist)
         IN IF r.ok THEN Returned(r.v) ELSE HistoryExcept(r.exc)

FxAlone(f) ==
    IF f.fault.site # "none" /\ ~Catches(PairCaught, f.fault.exc)
    THEN FxExcept(f.fault.exc)
    ELSE LET took == {n \in DOMAIN f.fetched : f.fetched[n].status = "ok"}
         IN FxResult([n \in took |-> ToFloat(f.fetched[n].close).v])

SearchAlone(f) ==
    IF f.fault.site = "Search" THEN SearchExcept(f.fault.exc)
    ELSE Returned([k \in DOMAIN f.quotes |-> ProjectQuote(f.quotes[k])])

ResultAlone(f) ==
    CASE f.op = "get_stock_price" -> PriceAlone(f)
      [] f.op = "get_stock_history" -> HistoryAlone(f)
      [] f.op = "get_fx_rates" -> FxAlone(f)
      [] f.op = "search_ticker" -> SearchAlone(f)

SameResult(a, b) ==
    /\ a.kind = b.kind
    /\ a.exc = b.exc
    /\ a.kind = "value" => a.v = b.v

\* C21: however the calls on one client interleave, every finished call has
\* the result it gives when run alone against the same provider responses;
\* while it runs, an FX call holds rates of its own pairs only; and the
\* catalog, the one thing the calls share, is the same four entries in
\* every state.
C21_CallsDoNotInterfere ==
    /\ FX_PAIRS = Catalog
    /\ \A f \in Frames :
          /\ f.pc = "done" => SameResult(f.result, ResultAlone(f))
          /\ DOMAIN f.rates =
                {n \in DOMAIN f.fetched : f.fetched[n].status = "ok"}
          /\ f.pc = "idle" => f.result = Pending

C21_Witness ==
    /\ Len(suspended) >= 1
    /\ pc = "done"
    /\ op = "get_fx_rates"
    /\ result.kind = "value"
    /\ DOMAIN result.v.rates = {"USDJPY"}
    /\ fetched["EURJPY"].status = "empty"
    /\ suspended[1].op = "get_fx_rates"
    /\ suspended[1].pc = "fx_take"
    /\ suspended[1].pos = 2
    /\ DOMAIN suspended[1].rates = {"USDJPY"}
    /\ suspended[1].fetched["USDJPY"].status = "ok"

====
